---- MODULE Spec2Model ----
(***************************************************************************)
(* The EWA document processing pipeline of processor/function_app.py       *)
(* (_run_pipeline) with its collaborators: the search indexer, the Event   *)
(* Grid publisher and the vision alert extractor running in the worker     *)
(* thread of a ThreadPoolExecutor.                                         *)
(*                                                                         *)
(* One pipeline run is a record (variable run).  Every step of the code is *)
(* an operator from a run record and the collaborator's behaviour at that  *)
(* step to the next run record; the actions of Spec apply these operators  *)
(* to run.  A second record, shadow, is driven by PairSpec through the     *)
(* same steps with the same collaborator behaviour and its own             *)
(* notification behaviour.                                                 *)
(***************************************************************************)
EXTENDS Integers, Sequences, FiniteSets, TLC

\* The vision model returns up to MaxAlerts alerts, the chunker up to MaxChunks chunks.
MaxAlerts == 2
MaxChunks == 2

\* @retry(stop=stop_after_attempt(2)) on VisionAlertExtractor.extract_alerts
ExtractAttempts == 2

\* alert_count = None: Document.alert_count before completion, and the default
\* argument of update_document_status.
NoCount == -1

VARIABLES run, shadow, embedder, chunker, handler, extractor, linker, parser

\* The components a run calls, each followed on its own by the
\* specification of that component: OpenAIEmbedder.embed_batch,
\* MarkdownChunker.chunk_document, the process_ewa_blob handler,
\* PDFExtractor.extract, MarkdownChunker.link_alerts_to_chunks and the
\* page bounds of VisionAlertExtractor.extract_alerts.
components == <<embedder, chunker, handler, extractor, linker, parser>>

vars == <<run, shadow, components>>

\* A component that has been constructed and has not been called.
NotCalled == [pc |-> "not_called"]

\* What one call of client.responses.create can do.
CallOutcomes == {"ok", "malformed", "error", "type_error", "never"}

\* The exceptions an attempt of extract_alerts can end with.
\* tenacity's default retry predicate is retry_if_exception_type(Exception):
\* every exception of the attempt is retried, whatever raised it.
ShouldRetry(exc) == TRUE

\* State of the locals of _run_pipeline after the blob was downloaded and the
\* SearchIndexer constructed, with the external index and topic still empty.
InitRun ==
    [ pc              |-> "init_components",
      doc_id          |-> "None",
      event_publisher |-> FALSE,
      alerts          |-> {},
      chunks          |-> {},
      future          |-> "none",
      result          |-> {},
      pending         |-> "none",
      worker          |-> "idle",
      attempt         |-> 1,
      calls           |-> <<>>,
      docs_status     |-> "absent",
      docs_alert_count |-> NoCount,
      status_log      |-> <<>>,
      chunks_index    |-> {},
      alerts_index    |-> {},
      events          |-> <<>>,
      delivered       |-> 0,
      raised_at       |-> "none",
      alert_failure   |-> "none",
      failed_writes   |-> {} ]

\* An exception reaches the handler of _run_pipeline (except Exception as exc).
Raise(r, stage) == [r EXCEPT !.pc = "except", !.raised_at = stage]

(***************************************************************************)
(* The external collaborators' sinks.                                      *)
(***************************************************************************)

\* Fault variant of publish_event: no try/except around client.send, a
\* failed send reaches the handler of _run_pipeline.
PublishEventPropagates(r, stage, next, sendOk) ==
    IF sendOk
    THEN [r EXCEPT !.events = Append(@, stage), !.delivered = @ + 1, !.pc = next]
    ELSE Raise([r EXCEPT !.events = Append(@, stage)], "publish")

\* EventGridPublisher.publish_event: the event is built and client.send is
\* called inside try/except Exception; a failed send is printed and the
\* method returns False, which no caller reads.  Control goes on to next.
\* events are the events handed to the client, delivered counts those the
\* topic accepted.
PublishEvent(r, stage, next, sendOk) ==
    [r EXCEPT !.events = Append(@, stage),
              !.delivered = IF sendOk THEN @ + 1 ELSE @,
              !.pc = next]

\* The stage each publish call site of _run_pipeline announces.
StageOf(pc) ==
    CASE pc = "publish_started" -> "extracting"
      [] pc = "publish_alert_extraction" -> "alert_extraction"
      [] pc = "publish_chunking" -> "chunking"
      [] pc = "publish_embedding" -> "embedding"
      [] pc = "publish_indexing" -> "indexing"
      [] pc = "publish_completed" -> "completed"
      [] pc = "publish_failed" -> "failed"

\* The statement that follows each publish call site.
AfterPublish(pc) ==
    CASE pc = "publish_started" -> "index_document"
      [] pc = "publish_alert_extraction" -> "submit"
      [] pc = "publish_chunking" -> "chunk_document"
      [] pc = "publish_embedding" -> "embed_batch"
      [] pc = "publish_indexing" -> "index_chunks"
      [] pc = "publish_completed" -> "done"
      [] pc = "publish_failed" -> "raised"

PublishPcs ==
    { "publish_started", "publish_alert_extraction", "publish_chunking",
      "publish_embedding", "publish_indexing", "publish_completed",
      "publish_failed" }

\* "if event_publisher: event_publisher.publish_...(...)" at a call site.
Publish(r, sendOk) ==
    IF r.event_publisher
    THEN PublishEvent(r, StageOf(r.pc), AfterPublish(r.pc), sendOk)
    ELSE [r EXCEPT !.pc = AfterPublish(r.pc)]

\* SearchIndexer.index_document: upload_documents of the Document record
\* (processing_status "extracting", alert_count None, as PDFExtractor built
\* it); an exception of the upload is printed and False is returned, which
\* _run_pipeline does not read.
IndexDocumentRecord(r, uploadOk) ==
    IF uploadOk
    THEN [r EXCEPT !.docs_status = "extracting",
                   !.docs_alert_count = NoCount,
                   !.status_log = Append(@, "extracting"),
                   !.pc = "publish_alert_extraction"]
    ELSE [r EXCEPT !.failed_writes = @ \cup {"document"},
                   !.pc = "publish_alert_extraction"]

\* Fault variant of update_document_status: a missing alert_count is written
\* as 0.
UpdateDocumentStatusZeroCount(r, status, alert_count, mergeOk, next) ==
    IF mergeOk /\ r.docs_status # "absent"
    THEN [r EXCEPT !.docs_status = status,
                   !.docs_alert_count = IF alert_count # NoCount THEN alert_count ELSE 0,
                   !.status_log = Append(@, status),
                   !.pc = next]
    ELSE [r EXCEPT !.failed_writes = @ \cup {status},
                   !.pc = next]

\* SearchIndexer.update_document_status: merge_documents of
\* {doc_id, processing_status[, alert_count]}.  A merge changes an existing
\* record only; an exception of the call is printed and False is returned,
\* which _run_pipeline does not read.  alert_count None (NoCount) leaves
\* the field out of the update.
UpdateDocumentStatus(r, status, alert_count, mergeOk, next) ==
    IF mergeOk /\ r.docs_status # "absent"
    THEN [r EXCEPT !.docs_status = status,
                   !.docs_alert_count =
                       IF alert_count # NoCount THEN alert_count ELSE @,
                   !.status_log = Append(@, status),
                   !.pc = next]
    ELSE [r EXCEPT !.failed_writes = @ \cup {status},
                   !.pc = next]

\* SearchIndexer.index_chunks: nothing to do for an empty list; otherwise one
\* upload_documents per batch of 1000 (one batch for the chunk counts here),
\* an exception printed and swallowed.
IndexChunks(r, uploadOk) ==
    IF r.chunks = {}
    THEN [r EXCEPT !.pc = "index_alerts"]
    ELSE IF uploadOk
    THEN [r EXCEPT !.chunks_index = @ \cup r.chunks, !.pc = "index_alerts"]
    ELSE [r EXCEPT !.failed_writes = @ \cup {"chunks"}, !.pc = "index_alerts"]

\* SearchIndexer.index_alerts: nothing to do for an empty list; otherwise one
\* upload_documents, an exception printed and swallowed.
IndexAlerts(r, uploadOk) ==
    IF r.alerts = {}
    THEN [r EXCEPT !.pc = "update_completed"]
    ELSE IF uploadOk
    THEN [r EXCEPT !.alerts_index = @ \cup r.alerts, !.pc = "update_completed"]
    ELSE [r EXCEPT !.failed_writes = @ \cup {"alerts"}, !.pc = "update_completed"]

(***************************************************************************)
(* The worker thread: VisionAlertExtractor.extract_alerts under tenacity.  *)
(***************************************************************************)

\* An attempt of extract_alerts ended with exception exc.  tenacity runs the
\* whole function again while attempts are left, and raises RetryError from
\* the call (the future's exception) when they are used up.
AttemptFailed(r, exc) ==
    IF ShouldRetry(exc) /\ r.attempt < ExtractAttempts
    THEN [r EXCEPT !.attempt = @ + 1, !.worker = "call"]
    ELSE [r EXCEPT !.future = "exception", !.worker = "finished"]

\* One call of client.responses.create and what extract_alerts does with the
\* response: "ok" a response that parses into k alerts, "malformed" a response
\* that _parse_result_json, Severity(...) or Category(...) rejects, "error" an
\* exception of the call, "type_error" a TypeError of the call (the first call
\* is then repeated with text= instead of response_format=), "never" a call
\* that does not return.
WorkerCall(r, outcome, k) ==
    LET c == [r EXCEPT !.calls = Append(@, outcome)] IN
    CASE outcome = "ok" ->
           [c EXCEPT !.future = "result", !.result = 1..k, !.worker = "finished"]
      [] outcome = "malformed" -> AttemptFailed(c, "malformed")
      [] outcome = "error" -> AttemptFailed(c, "error")
      [] outcome = "type_error" ->
           IF r.worker = "call"
           THEN [c EXCEPT !.worker = "call_text"]
           ELSE AttemptFailed(c, "type_error")
      [] outcome = "never" -> [c EXCEPT !.worker = "hung"]

\* The worker thread is about to call the model.
WorkerCanCall(r) == r.worker \in {"call", "call_text"}

(***************************************************************************)
(* The main thread: the statements of _run_pipeline.                       *)
(***************************************************************************)

\* Lines 142-153: the extractors, the chunker and the embedder are built from
\* the environment; a missing setting raises before any doc_id exists.
InitComponents(r, ok) ==
    IF ok THEN [r EXCEPT !.pc = "init_publisher"] ELSE Raise(r, "init")

\* Lines 156-162: the publisher is optional; failing to build it is logged
\* and event_publisher stays None.
InitPublisher(r, ok) ==
    [r EXCEPT !.event_publisher = ok, !.pc = "extract"]

\* Lines 166-171: PDFExtractor.extract returns the Document; doc_id and sid
\* are set.  An unreadable PDF raises with doc_id still None.
ExtractPdf(r, ok) ==
    IF ok
    THEN [r EXCEPT !.doc_id = "d1", !.pc = "publish_started"]
    ELSE Raise(r, "extract")

\* Lines 184-192: executor.submit starts extract_alerts in the worker thread.
Submit(r) ==
    [r EXCEPT !.future = "pending", !.worker = "call", !.pc = "result"]

\* Line 193: future.result(timeout=90) returns the result, re-raises the
\* worker's exception, or raises TimeoutError while the future is pending.
\* Either way the with block is left next.
FutureResult(r, timeout) ==
    CASE r.future = "result" -> [r EXCEPT !.pc = "executor_exit"]
      [] r.future = "exception" ->
           [r EXCEPT !.pending = "exception", !.pc = "executor_exit"]
      [] r.future = "pending" /\ timeout ->
           [r EXCEPT !.pending = "timeout", !.pc = "executor_exit"]
      [] OTHER -> r

\* future.result can make a step: the future is done, or the 90 s ran out.
FutureResultReady(r, timeout) == r.future \in {"result", "exception"} \/ timeout

\* Fault variant: shutdown(wait=False), the with block is left at once.
ShutdownWithoutWait(r) == TRUE

\* ThreadPoolExecutor.__exit__ is shutdown(wait=True): the with block is left
\* only when the worker thread has ended.
ShutdownComplete(r) == r.worker = "finished"

\* Fault variant of the except clauses of the alert step: the exception is
\* raised again instead of being absorbed.
AlertExceptHandlerReraises(r) ==
    Raise([r EXCEPT !.alerts = {}, !.alert_failure = r.pending], "alert_extraction")

\* Lines 197-202: both except clauses of the alert step log, set alerts = []
\* and let the pipeline go on.
AlertExceptHandler(r) ==
    [r EXCEPT !.alerts = {}, !.alert_failure = r.pending,
              !.pc = "publish_chunking"]

\* The executor is shut down and the invocation of extract_alerts is over:
\* the future, its result and the invocation's attempt counter and call log
\* are read by nothing after the with block and are dropped from the state.
DropExecutor(r) ==
    [r EXCEPT !.future = "none", !.result = {}, !.pending = "none",
              !.attempt = 1, !.calls = <<>>]

\* Leaving the with block (lines 184-196): with a result, alerts =
\* alert_result.alerts; with an exception pending, the except clause.
ExecutorExit(r) ==
    DropExecutor(IF r.pending = "none"
                 THEN [r EXCEPT !.alerts = r.result, !.pc = "publish_chunking"]
                 ELSE AlertExceptHandler(r))

\* Lines 209-216: chunk_document returns m chunks (none for a text of white
\* space that is longer than max_chunk_size, see ChunkSpec).
ChunkDocument(r, m) ==
    [r EXCEPT !.chunks = 1..m, !.pc = "link_alerts"]

\* Line 221: link_alerts_to_chunks returns the same alerts, evidence filled in.
LinkAlerts(r) == [r EXCEPT !.pc = "publish_embedding"]

\* Lines 228-231: embed_batch returns the vectors, or raises when its
\* attempts are used up.
EmbedBatch(r, ok) ==
    IF ok THEN [r EXCEPT !.pc = "publish_indexing"] ELSE Raise(r, "embedding")

\* Line 240: update_document_status(doc_id, "completed", len(alerts)).
UpdateCompleted(r, mergeOk) ==
    UpdateDocumentStatus(r, "completed", Cardinality(r.alerts), mergeOk,
                         "publish_completed")

\* Fault variant of the handler: the failure is persisted and not published.
ExceptHandlerNoNotification(r, mergeOk) ==
    IF r.doc_id # "None"
    THEN UpdateDocumentStatus(r, "failed", NoCount, mergeOk, "raised")
    ELSE [r EXCEPT !.pc = "raised"]

\* Lines 254-263: the handler.  With a doc_id the status "failed" is written
\* (no alert_count) and the failure published; then the exception is raised
\* again.
ExceptHandler(r, mergeOk) ==
    IF r.doc_id # "None"
    THEN UpdateDocumentStatus(r, "failed", NoCount, mergeOk, "publish_failed")
    ELSE [r EXCEPT !.pc = "raised"]

(***************************************************************************)
(* Spec: one pipeline run.  One action per statement of _run_pipeline and  *)
(* one for the worker thread; the collaborators' behaviour is chosen at    *)
(* each step.                                                              *)
(***************************************************************************)

Init ==
    /\ run = InitRun
    /\ shadow = InitRun
    /\ linker = NotCalled
    /\ parser = NotCalled
    /\ embedder = NotCalled
    /\ chunker = NotCalled
    /\ handler = NotCalled
    /\ extractor = NotCalled

DoInitComponents ==
    /\ run.pc = "init_components"
    /\ \E ok \in BOOLEAN : run' = InitComponents(run, ok)
    /\ UNCHANGED <<shadow, components>>

DoInitPublisher ==
    /\ run.pc = "init_publisher"
    /\ \E ok \in BOOLEAN : run' = InitPublisher(run, ok)
    /\ UNCHANGED <<shadow, components>>

DoExtractPdf ==
    /\ run.pc = "extract"
    /\ \E ok \in BOOLEAN : run' = ExtractPdf(run, ok)
    /\ UNCHANGED <<shadow, components>>

DoPublish ==
    /\ run.pc \in PublishPcs
    /\ \E sendOk \in BOOLEAN : run' = Publish(run, sendOk)
    /\ UNCHANGED <<shadow, components>>

DoIndexDocument ==
    /\ run.pc = "index_document"
    /\ \E ok \in BOOLEAN : run' = IndexDocumentRecord(run, ok)
    /\ UNCHANGED <<shadow, components>>

DoSubmit ==
    /\ run.pc = "submit"
    /\ run' = Submit(run)
    /\ UNCHANGED <<shadow, components>>

DoWorkerCall ==
    /\ WorkerCanCall(run)
    /\ \E o \in CallOutcomes, k \in 0..MaxAlerts : run' = WorkerCall(run, o, k)
    /\ UNCHANGED <<shadow, components>>

DoFutureResult ==
    /\ run.pc = "result"
    /\ \E timeout \in BOOLEAN :
          /\ FutureResultReady(run, timeout)
          /\ run' = FutureResult(run, timeout)
    /\ UNCHANGED <<shadow, components>>

DoExecutorExit ==
    /\ run.pc = "executor_exit"
    /\ ShutdownComplete(run)
    /\ run' = ExecutorExit(run)
    /\ UNCHANGED <<shadow, components>>

DoChunkDocument ==
    /\ run.pc = "chunk_document"
    /\ \E m \in 0..MaxChunks : run' = ChunkDocument(run, m)
    /\ UNCHANGED <<shadow, components>>

DoLinkAlerts ==
    /\ run.pc = "link_alerts"
    /\ run' = LinkAlerts(run)
    /\ UNCHANGED <<shadow, components>>

DoEmbedBatch ==
    /\ run.pc = "embed_batch"
    /\ \E ok \in BOOLEAN : run' = EmbedBatch(run, ok)
    /\ UNCHANGED <<shadow, components>>

DoIndexChunks ==
    /\ run.pc = "index_chunks"
    /\ \E ok \in BOOLEAN : run' = IndexChunks(run, ok)
    /\ UNCHANGED <<shadow, components>>

DoIndexAlerts ==
    /\ run.pc = "index_alerts"
    /\ \E ok \in BOOLEAN : run' = IndexAlerts(run, ok)
    /\ UNCHANGED <<shadow, components>>

DoUpdateCompleted ==
    /\ run.pc = "update_completed"
    /\ \E ok \in BOOLEAN : run' = UpdateCompleted(run, ok)
    /\ UNCHANGED <<shadow, components>>

DoExceptHandler ==
    /\ run.pc = "except"
    /\ \E ok \in BOOLEAN : run' = ExceptHandler(run, ok)
    /\ UNCHANGED <<shadow, components>>

Next ==
    \/ DoInitComponents
    \/ DoInitPublisher
    \/ DoExtractPdf
    \/ DoPublish
    \/ DoIndexDocument
    \/ DoSubmit
    \/ DoWorkerCall
    \/ DoFutureResult
    \/ DoExecutorExit
    \/ DoChunkDocument
    \/ DoLinkAlerts
    \/ DoEmbedBatch
    \/ DoIndexChunks
    \/ DoIndexAlerts
    \/ DoUpdateCompleted
    \/ DoExceptHandler

Spec == Init /\ [][Next]_vars

\* The two threads are scheduled by the operating system: a thread that can
\* make a step eventually makes one.
FairSpec == Spec /\ WF_vars(Next)

(***************************************************************************)
(* PairSpec: two runs of the pipeline on the same upload.  At every step   *)
(* both meet the same scheduling and the same behaviour of the PDF         *)
(* library, the model, the embedder and the index (the choice e); each     *)
(* meets its own behaviour of Event Grid (n1, n2).                         *)
(***************************************************************************)

SomeChoice ==
    [thread |-> "main", ok |-> TRUE, call |-> "ok", k |-> 0, m |-> 1,
     timeout |-> FALSE]

\* The collaborator behaviours that matter to run record r where it stands.
ChoicesAt(r) ==
    LET main ==
          CASE r.pc \in { "init_components", "extract", "index_document",
                          "embed_batch", "index_chunks", "index_alerts",
                          "update_completed", "except" } ->
                 { [SomeChoice EXCEPT !.ok = b] : b \in BOOLEAN }
            [] r.pc = "chunk_document" ->
                 { [SomeChoice EXCEPT !.m = m] : m \in 0..MaxChunks }
            [] r.pc = "result" ->
                 { [SomeChoice EXCEPT !.timeout = b] : b \in BOOLEAN }
            [] OTHER -> { SomeChoice }
        worker ==
          IF WorkerCanCall(r)
          THEN { [SomeChoice EXCEPT !.thread = "worker", !.call = o, !.k = k] :
                    o \in CallOutcomes, k \in 0..MaxAlerts }
          ELSE {}
    IN main \cup worker

\* The step run record r makes when the scheduler picks e.thread, the
\* collaborators behave as e says and Event Grid as notifyOk says: the
\* statement r.pc stands at, by the operators above.  A thread that cannot
\* move leaves r as it is.
Step(r, e, notifyOk) ==
    IF e.thread = "worker"
    THEN IF WorkerCanCall(r) THEN WorkerCall(r, e.call, e.k) ELSE r
    ELSE CASE r.pc = "init_components" -> InitComponents(r, e.ok)
           [] r.pc = "init_publisher" -> InitPublisher(r, notifyOk)
           [] r.pc = "extract" -> ExtractPdf(r, e.ok)
           [] r.pc \in PublishPcs -> Publish(r, notifyOk)
           [] r.pc = "index_document" -> IndexDocumentRecord(r, e.ok)
           [] r.pc = "submit" -> Submit(r)
           [] r.pc = "result" -> FutureResult(r, e.timeout)
           [] r.pc = "executor_exit" ->
                IF ShutdownComplete(r) THEN ExecutorExit(r) ELSE r
           [] r.pc = "chunk_document" -> ChunkDocument(r, e.m)
           [] r.pc = "link_alerts" -> LinkAlerts(r)
           [] r.pc = "embed_batch" -> EmbedBatch(r, e.ok)
           [] r.pc = "index_chunks" -> IndexChunks(r, e.ok)
           [] r.pc = "index_alerts" -> IndexAlerts(r, e.ok)
           [] r.pc = "update_completed" -> UpdateCompleted(r, e.ok)
           [] r.pc = "except" -> ExceptHandler(r, e.ok)
           [] OTHER -> r

PairNext ==
    \E e \in ChoicesAt(run) \cup ChoicesAt(shadow), n1 \in BOOLEAN, n2 \in BOOLEAN :
        /\ run' = Step(run, e, n1)
        /\ shadow' = Step(shadow, e, n2)
        /\ UNCHANGED components

PairSpec == Init /\ [][PairNext]_vars

(***************************************************************************)
(* Vocabulary of the properties.                                           *)
(***************************************************************************)

\* Step 2 of _run_pipeline, the alert_extraction stage.
AlertStagePcs == {"publish_alert_extraction", "submit", "result", "executor_exit"}

\* Steps 3 to 6: chunking, evidence linking, embedding and indexing.
LaterStagePcs ==
    { "publish_chunking", "chunk_document", "link_alerts", "publish_embedding",
      "embed_batch", "publish_indexing", "index_chunks", "index_alerts",
      "update_completed" }

\* The handler of _run_pipeline, up to the re-raise.
HandlerPcs == {"except", "publish_failed", "raised"}

Last(seq) == seq[Len(seq)]

InLog(r, status) == \E i \in 1..Len(r.status_log) : r.status_log[i] = status

\* What a run leaves behind for its caller and for a reader of the index.
Outcome(r) ==
    IF r.pc = "done" THEN "returned"
    ELSE IF r.pc = "raised" THEN "raised" ELSE "running"

Observable(r) ==
    [ status_log |-> r.status_log,
      alert_count |-> r.docs_alert_count,
      chunks_index |-> r.chunks_index,
      alerts_index |-> r.alerts_index,
      outcome |-> Outcome(r) ]

(***************************************************************************)
(* Properties.                                                             *)
(***************************************************************************)

\* C1: a run that raises after the doc_id was established leaves `failed` as
\* the last persisted processing_status of that doc_id (a `failed` record is
\* always written) and has never persisted `completed`.
C1_FailedStatusAlwaysWritten ==
    (run.pc = "raised" /\ run.doc_id # "None") =>
        /\ Len(run.status_log) > 0
        /\ Last(run.status_log) = "failed"
        /\ ~InLog(run, "completed")

\* C2: a failure of the embedding stage, or a failed upload of the chunks or
\* of the alerts, is fatal: the run goes to the handler and raises, it never
\* persists `completed` and never returns normally.
C2_StageFailureIsFatal ==
    /\ run.raised_at = "embedding" =>
          run.pc \in HandlerPcs /\ ~InLog(run, "completed")
    /\ run.failed_writes \cap {"chunks", "alerts"} # {} =>
          /\ ~InLog(run, "completed")
          /\ run.pc \notin {"publish_completed", "done"}

\* C3: whenever the persisted processing_status is `completed`, all chunks and
\* all alerts of the run are in the index.
C3_CompletedMeansAllIndexed ==
    run.docs_status = "completed" =>
        run.chunks_index = run.chunks /\ run.alerts_index = run.alerts

\* C4: when the alert step ended by the timeout or by an exception, the
\* pipeline is in the later stages with an empty alert list; the alert step
\* alone never sends the run to the handler or the status to `failed`, and a
\* run that returns with every index write accepted has persisted `completed`
\* with alert_count 0 and all its chunks.
C4_AlertFailureIsNotFatal ==
    run.alert_failure # "none" =>
        /\ run.alerts = {} /\ run.alerts_index = {}
        /\ run.pc \in LaterStagePcs \cup {"publish_completed", "done"} \cup HandlerPcs
        /\ run.raised_at # "embedding" =>
              run.pc \notin HandlerPcs /\ run.docs_status # "failed"
        /\ (run.pc = "done" /\ run.failed_writes = {}) =>
              /\ run.docs_status = "completed"
              /\ run.docs_alert_count = 0
              /\ run.chunks_index = run.chunks

\* C4 witness: a run whose alert step timed out has returned with `completed`
\* and alert_count 0 persisted.
C4_Witness ==
    /\ run.pc = "done"
    /\ run.alert_failure = "timeout"
    /\ run.docs_status = "completed"
    /\ run.docs_alert_count = 0
    /\ run.chunks_index # {}

\* C5: when the call of the model never returns, the alert step still ends
\* and the pipeline enters the chunking stage.
C5_HungCallReachesChunking ==
    (run.worker = "hung") ~> (run.pc \in {"publish_chunking", "chunk_document"})

\* C6: a run in which every stage succeeds persists the statuses extracting,
\* alert_extraction, chunking, embedding, indexing, completed, in this order.
C6_EveryStagePersisted ==
    (run.pc = "done" /\ run.failed_writes = {} /\ run.alert_failure = "none") =>
        run.status_log = << "extracting", "alert_extraction", "chunking",
                            "embedding", "indexing", "completed" >>

\* C7: while the pipeline is in the alert_extraction stage, the initial
\* Document record (status `extracting`) is in the index.
C7_DocumentRecordBeforeAlertStage ==
    run.pc \in AlertStagePcs => run.docs_status = "extracting"

\* C8: two runs that meet the same behaviour of every collaborator but Event
\* Grid (whether the publisher could be built, which sends fail) persist the
\* same statuses, alert_count, chunks and alerts, and return or raise alike.
C8_NotificationsDoNotInterfere == Observable(run) = Observable(shadow)

\* C8 witness: both runs have ended, one with a publisher and at least one
\* lost notification, with different notifications delivered.
C8_Witness ==
    /\ Outcome(run) # "running" /\ Outcome(shadow) # "running"
    /\ run.event_publisher /\ run.delivered < Len(run.events)
    /\ run.delivered # shadow.delivered
    /\ InLog(run, "completed")

\* C9: while chunking, evidence linking, embedding or indexing executes, the
\* alert-extraction worker thread is not running (also after the timeout).
C9_WorkerEndedBeforeLaterStages ==
    run.pc \in LaterStagePcs => run.worker = "finished"

\* C9 witness: the timeout fired and the pipeline is chunking, the worker
\* having ended.
C9_Witness ==
    /\ run.pc = "chunk_document"
    /\ run.alert_failure = "timeout"
    /\ run.worker = "finished"

\* C10: within one invocation of extract_alerts, a response that cannot be
\* parsed or validated is the last call of the model: no call follows it.
C10_NoCallAfterMalformedResponse ==
    \A i \in 1..Len(run.calls) :
        run.calls[i] = "malformed" => i = Len(run.calls)

(***************************************************************************)
(* EmbedSpec: the embedding step of _run_pipeline (function_app.py lines   *)
(* 228-231) with OpenAIEmbedder.embed_batch (openai_embedder.py lines      *)
(* 50-78).  A chunk is a record with its content_md and content_vector; a  *)
(* text is a record with the identity of its content and its length; a     *)
(* vector is the one-element sequence of the text the embeddings endpoint  *)
(* computed it from, and the empty sequence is content_vector = None.      *)
(***************************************************************************)

\* The run hands at most MaxTexts chunks to the embedder.
MaxTexts == 33

\* batch_size: int = 16
BatchSize == 16

\* t[:8000]
TextLimit == 8000

\* @retry(stop=stop_after_attempt(3)) on embed_batch
EmbedAttempts == 3

\* The lengths of the chunk contents: one below the limit, one above it.
ShortLen == 100
LongLen == 9000

\* The chunks chunk_document hands over: n chunks of distinct content, the
\* chunk at position longAt (if any) longer than the limit.
ChunksIn(n, longAt) ==
    [j \in 1..n |->
        [content_md |-> [id |-> j, len |-> IF j = longAt THEN LongLen ELSE ShortLen],
         content_vector |-> <<>>]]

\* t[:8000]
Truncate(t) == [t EXCEPT !.len = IF t.len > TextLimit THEN TextLimit ELSE t.len]

\* client.embeddings.create(input=batch): response.data holds one embedding
\* per input, in the order of the inputs.
EmbeddingsCreate(batch) == [j \in 1..Len(batch) |-> <<batch[j]>>]

\* texts[i:i + batch_size], truncated (lines 64-67); i counts from 0.
BatchAt(texts, i) ==
    LET last == IF i + BatchSize < Len(texts) THEN i + BatchSize ELSE Len(texts)
    IN [j \in 1..(last - i) |-> Truncate(texts[i + j])]

\* A faulty extend: the new embeddings are put in front.
ExtendInFront(all_embeddings, embeddings) == embeddings \o all_embeddings

\* Line 76: all_embeddings.extend(embeddings)
Extend(all_embeddings, embeddings) == all_embeddings \o embeddings

\* Line 228: chunk_texts = [c.content_md for c in chunks]
ChunkTexts(e) ==
    [e EXCEPT !.texts = [j \in 1..Len(e.chunks) |-> e.chunks[j].content_md],
              !.pc = "embed_batch"]

\* Line 61 at the start of an attempt: all_embeddings = [], and the loop
\* starts at i = 0.
BeginAttempt(e) == [e EXCEPT !.all_embeddings = <<>>, !.i = 0, !.pc = "loop"]

\* Lines 63-76, one pass of the loop.  When the endpoint raises, tenacity
\* calls embed_batch again from its first line while attempts are left, and
\* lets the exception out of the last attempt.
CreateBatch(e, ok) ==
    IF ok
    THEN [e EXCEPT !.all_embeddings =
                      Extend(e.all_embeddings, EmbeddingsCreate(BatchAt(e.texts, e.i))),
                   !.i = e.i + BatchSize]
    ELSE IF e.attempt < EmbedAttempts
         THEN BeginAttempt([e EXCEPT !.attempt = e.attempt + 1])
         ELSE [e EXCEPT !.pc = "raised"]

\* Line 78 and line 229: return all_embeddings, bound to embeddings.
ReturnEmbeddings(e) == [e EXCEPT !.embeddings = e.all_embeddings, !.pc = "zip"]

\* Lines 230-231: for chunk, embedding in zip(chunks, embeddings); zip stops
\* at the shorter of the two.
ZipVectors(e) ==
    [e EXCEPT !.chunks = [j \in 1..Len(e.chunks) |->
                            IF j <= Len(e.embeddings)
                            THEN [e.chunks[j] EXCEPT !.content_vector = e.embeddings[j]]
                            ELSE e.chunks[j]],
              !.pc = "indexing"]

EmbedInit ==
    /\ run = InitRun
    /\ shadow = InitRun
    /\ linker = NotCalled
    /\ parser = NotCalled
    /\ chunker = NotCalled
    /\ handler = NotCalled
    /\ extractor = NotCalled
    /\ \E n \in 0..MaxTexts : \E longAt \in {0, 1, n} :
          embedder = [pc |-> "chunk_texts", chunks |-> ChunksIn(n, longAt),
                      texts |-> <<>>, i |-> 0, all_embeddings |-> <<>>,
                      embeddings |-> <<>>, attempt |-> 1]

EmbedFrame == UNCHANGED <<run, shadow, chunker, handler, extractor, linker, parser>>

DoChunkTexts ==
    /\ embedder.pc = "chunk_texts"
    /\ embedder' = ChunkTexts(embedder)
    /\ EmbedFrame

DoBeginAttempt ==
    /\ embedder.pc = "embed_batch"
    /\ embedder' = BeginAttempt(embedder)
    /\ EmbedFrame

DoCreateBatch ==
    /\ embedder.pc = "loop"
    /\ embedder.i < Len(embedder.texts)
    /\ \E ok \in BOOLEAN : embedder' = CreateBatch(embedder, ok)
    /\ EmbedFrame

DoReturnEmbeddings ==
    /\ embedder.pc = "loop"
    /\ embedder.i >= Len(embedder.texts)
    /\ embedder' = ReturnEmbeddings(embedder)
    /\ EmbedFrame

DoZipVectors ==
    /\ embedder.pc = "zip"
    /\ embedder' = ZipVectors(embedder)
    /\ EmbedFrame

EmbedNext ==
    \/ DoChunkTexts
    \/ DoBeginAttempt
    \/ DoCreateBatch
    \/ DoReturnEmbeddings
    \/ DoZipVectors

EmbedSpec == EmbedInit /\ [][EmbedNext]_vars

\* C11: when the embedding step has completed without raising, every chunk
\* holds a vector, and the chunk at position j holds the vector computed from
\* the (truncated) content of chunk j, whatever the number of chunks and of
\* sub-batches.
C11_ChunkHoldsItsOwnVector ==
    embedder.pc = "indexing" =>
        \A j \in 1..Len(embedder.chunks) :
            /\ embedder.chunks[j].content_vector # <<>>
            /\ embedder.chunks[j].content_vector =
                   <<Truncate(embedder.chunks[j].content_md)>>

\* The step completed for three sub-batches, the last one partial, after a
\* failed attempt.
C11_Witness ==
    /\ embedder.pc = "indexing"
    /\ Len(embedder.chunks) > 2 * BatchSize
    /\ embedder.attempt > 1
    /\ \E j \in 1..Len(embedder.chunks) : embedder.chunks[j].content_md.len > TextLimit

(***************************************************************************)
(* HandlerSpec: the process_ewa_blob handler (function_app.py lines        *)
(* 56-110) with _parse_blob_path (lines 33-52), followed by the pipeline   *)
(* run it starts.  A blob URL is "https://acct" + host + "/" + its path    *)
(* segments joined by "/"; host is the storage host                        *)
(* ".blob.core.windows.net" or another one.                                *)
(***************************************************************************)

\* A request carries at most MaxEvents events, a URL at most MaxSegments
\* path segments.
MaxEvents == 2
MaxSegments == 3

\* The path segments of the URLs: empty (two slashes in a row), a
\* directory, and file names.
Segments == {"", "c", "pdf", "f.pdf", "F.PDF", "f.txt"}

RECURSIVE SeqsUpTo(_, _)
SeqsUpTo(S, n) ==
    IF n = 0 THEN { <<>> }
    ELSE LET shorter == SeqsUpTo(S, n - 1)
         IN shorter \cup { Append(q, x) : q \in { t \in shorter : Len(t) = n - 1 }, x \in S }

BlobUrls ==
    { [host |-> h, path |-> p] :
        h \in {".blob.core.windows.net", ".example.org"}, p \in SeqsUpTo(Segments, MaxSegments) }

NoUrl == [host |-> "", path |-> <<>>]

\* The events a request can carry.
EventsIn ==
    { [eventType |-> "Microsoft.EventGrid.SubscriptionValidationEvent", url |-> NoUrl],
      [eventType |-> "Other", url |-> NoUrl] }
    \cup { [eventType |-> "Microsoft.Storage.BlobCreated", url |-> u] : u \in BlobUrls }

\* Line 43: blob_url.split(".blob.core.windows.net", 1)[-1], then line 44:
\* path.split("/").  With the storage host the path is what follows it, "/"
\* and the segments; without it the whole URL is the path.
SplitPath(url) ==
    IF url.host = ".blob.core.windows.net"
    THEN <<"">> \o url.path
    ELSE <<"https:", "", "acct" \o url.host>> \o url.path

\* Line 44: [p for p in path.split("/") if p]
NonEmptyParts(segs) == SelectSeq(segs, LAMBDA p : p # "")

\* Lines 43-52: _parse_blob_path; ok = FALSE is the ValueError of line 47.
ParseBlobPath(url) ==
    LET parts == NonEmptyParts(SplitPath(url))
    IN IF Len(parts) < 3
       THEN [ok |-> FALSE, container_name |-> "", customer_id |-> "", file_name |-> <<>>]
       ELSE [ok |-> TRUE, container_name |-> parts[1], customer_id |-> parts[2],
             file_name |-> SubSeq(parts, 3, Len(parts))]

\* str.lower() on the names of Segments.
Lower(s) == IF s = "F.PDF" THEN "f.pdf" ELSE s

\* str.endswith(".pdf") on the lower-case names of Segments.
EndsWithDotPdf(s) == s = "f.pdf"

\* A faulty test that takes every name for a PDF.
IsPdfNameAlways(file_name) == TRUE

\* Line 101: file_name.lower().endswith(".pdf"); file_name is the "/"-join of
\* at least one non-empty part, and ".pdf" holds no "/", so the test looks at
\* the last part.
IsPdfName(file_name) == EndsWithDotPdf(Lower(file_name[Len(file_name)]))

\* No event handled yet.
NoEvent == [eventType |-> "", url |-> NoUrl]

\* Lines 76-108, one pass of the loop over event ev.
HandleEvent(h, ev) ==
    IF ev.eventType = "Microsoft.EventGrid.SubscriptionValidationEvent"
    THEN [h EXCEPT !.pc = "returned", !.response = "200 validationResponse", !.event = ev]
    ELSE IF ev.eventType = "Microsoft.Storage.BlobCreated"
    THEN LET parsed == ParseBlobPath(ev.url)
         IN IF ~parsed.ok
            THEN [h EXCEPT !.pc = "returned", !.response = "400", !.event = ev]
            ELSE IF ~IsPdfName(parsed.file_name)
            THEN [h EXCEPT !.pc = "returned", !.response = "200 Skipped", !.event = ev]
            ELSE [h EXCEPT !.pc = "run_pipeline", !.event = ev]
    ELSE [h EXCEPT !.k = h.k + 1]

\* The run before _run_pipeline is called.
NotStarted == [InitRun EXCEPT !.pc = "not_started"]

\* Lines 113-139: _run_pipeline downloads the blob and constructs the
\* indexer; an exception there leaves the function, the try block not yet
\* entered.
RunPipeline(r, downloadOk) ==
    IF downloadOk THEN InitRun ELSE [InitRun EXCEPT !.pc = "raised"]

HandlerInit ==
    /\ run = NotStarted
    /\ shadow = InitRun
    /\ linker = NotCalled
    /\ parser = NotCalled
    /\ embedder = NotCalled
    /\ chunker = NotCalled
    /\ extractor = NotCalled
    /\ \E n \in 0..MaxEvents :
          handler = [pc |-> "loop", n |-> n, k |-> 0, event |-> NoEvent,
                     response |-> "none"]

\* Line 76: the next event of the request.
DoHandleEvent ==
    /\ handler.pc = "loop"
    /\ handler.k < handler.n
    /\ \E ev \in EventsIn : handler' = HandleEvent(handler, ev)
    /\ UNCHANGED <<run, shadow, embedder, chunker, extractor, linker, parser>>

\* Line 110: no event left.
DoReturnOk ==
    /\ handler.pc = "loop"
    /\ handler.k >= handler.n
    /\ handler' = [handler EXCEPT !.pc = "returned", !.response = "200 OK"]
    /\ UNCHANGED <<run, shadow, embedder, chunker, extractor, linker, parser>>

\* Line 105: the call of _run_pipeline.  From here on the handler returns
\* "OK" or lets the exception out, whatever the event was.
DoRunPipeline ==
    /\ handler.pc = "run_pipeline"
    /\ \E downloadOk \in BOOLEAN : run' = RunPipeline(run, downloadOk)
    /\ handler' = [handler EXCEPT !.pc = "in_pipeline", !.event = NoEvent]
    /\ UNCHANGED <<shadow, embedder, chunker, extractor, linker, parser>>

\* Lines 105-106: _run_pipeline has returned, or has raised.
DoPipelineEnded ==
    /\ handler.pc = "in_pipeline"
    /\ run.pc \in {"done", "raised"}
    /\ handler' = [handler EXCEPT !.pc = IF run.pc = "done" THEN "returned" ELSE "raised",
                                  !.response = IF run.pc = "done" THEN "200 OK" ELSE "none"]
    /\ UNCHANGED <<run, shadow, embedder, chunker, extractor, linker, parser>>

HandlerNext ==
    \/ DoHandleEvent
    \/ DoReturnOk
    \/ DoRunPipeline
    \/ DoPipelineEnded
    \/ (handler.pc = "in_pipeline" /\ Next)

HandlerSpec == HandlerInit /\ [][HandlerNext]_vars

\* The blob of event ev is not a PDF by its name, or its URL does not parse.
Malformed(ev) ==
    /\ ev.eventType = "Microsoft.Storage.BlobCreated"
    /\ \/ ~ParseBlobPath(ev.url).ok
       \/ ~EndsWithDotPdf(Lower(ParseBlobPath(ev.url).file_name[Len(ParseBlobPath(ev.url).file_name)]))

\* C12: a BlobCreated event whose blob name is not a PDF name, or whose URL
\* does not parse into container, customer and file name, is answered
\* without _run_pipeline being called: the run is never started, the index
\* holds no Document, chunk or alert record, and no notification was sent.
C12_MalformedEventRejectedEarly ==
    Malformed(handler.event) =>
        /\ handler.pc = "returned"
        /\ handler.response \in {"400", "200 Skipped"}
        /\ run = NotStarted
        /\ run.docs_status = "absent"
        /\ run.chunks_index = {} /\ run.alerts_index = {}
        /\ run.events = <<>> /\ run.delivered = 0

\* A BlobCreated event for a .txt blob at a well-formed URL was answered.
C12_Witness ==
    /\ handler.pc = "returned"
    /\ handler.event.eventType = "Microsoft.Storage.BlobCreated"
    /\ handler.event.url = [host |-> ".blob.core.windows.net", path |-> <<"c", "c", "f.txt">>]
    /\ handler.response = "200 Skipped"

(***************************************************************************)
(* ExtractorSpec: the doc_id that PDFExtractor.extract gives to a run      *)
(* (pdf_extractor.py lines 30-52).  Several runs, each in its own function *)
(* invocation, call extract while the clock advances; the clock counts     *)
(* ticks, TicksPerSecond of them to the second.                            *)
(***************************************************************************)

\* At most MaxRuns runs call extract, up to tick MaxClock.
MaxRuns == 3
MaxClock == 4
TicksPerSecond == 2

Customers == {"cust1", "cust2"}
PdfBytes == {"bytesA", "bytesB"}

\* Line 31: hashlib.sha256(pdf_bytes).hexdigest(), 64 hex digits; different
\* contents have different digests, here already in the first 16 digits.
Sha256(pdf_bytes) == [head |-> <<"sha", pdf_bytes>>, tail |-> <<"sha-rest", pdf_bytes>>]

\* sha256_hash[:16]
First16(digest) == digest.head

\* datetime.utcnow().strftime('%Y%m%d%H%M%S'): the time of day cut to the
\* whole second.
Strftime(now) == now \div TicksPerSecond

\* Line 38: f"{customer_id}_{sha256_hash[:16]}_{...strftime(...)}".  The last
\* two parts have fixed widths, so the string determines the three parts.
DocId(customer_id, pdf_bytes, now) ==
    <<customer_id, First16(Sha256(pdf_bytes)), Strftime(now)>>

\* Lines 30-52: extract builds the Document of this run.
Extract(x, customer_id, pdf_bytes) ==
    [x EXCEPT !.documents =
        Append(x.documents,
               [doc_id |-> DocId(customer_id, pdf_bytes, x.now),
                customer_id |-> customer_id,
                sha256 |-> Sha256(pdf_bytes),
                processing_status |-> "extracting"])]

ExtractorInit ==
    /\ run = InitRun
    /\ shadow = InitRun
    /\ linker = NotCalled
    /\ parser = NotCalled
    /\ embedder = NotCalled
    /\ chunker = NotCalled
    /\ handler = NotCalled
    /\ extractor = [now |-> 0, documents |-> <<>>]

\* Time passes.
DoTick ==
    /\ extractor.now < MaxClock
    /\ extractor' = [extractor EXCEPT !.now = extractor.now + 1]
    /\ UNCHANGED <<run, shadow, embedder, chunker, handler, linker, parser>>

\* One more run reaches line 166 of _run_pipeline and calls extract.
DoExtract ==
    /\ Len(extractor.documents) < MaxRuns
    /\ \E c \in Customers, b \in PdfBytes : extractor' = Extract(extractor, c, b)
    /\ UNCHANGED <<run, shadow, embedder, chunker, handler, linker, parser>>

ExtractorNext == DoTick \/ DoExtract

ExtractorSpec == ExtractorInit /\ [][ExtractorNext]_vars

\* C13: no two runs obtain the same doc_id.
C13_DocIdUniquePerRun ==
    \A i, j \in 1..Len(extractor.documents) :
        i # j => extractor.documents[i].doc_id # extractor.documents[j].doc_id

\* C14: a step that makes the persisted status `failed` leaves the persisted
\* alert_count as it was; a step that changes the persisted alert_count makes
\* the status `completed` and the count the number of alerts of the run, the
\* list handed to index_alerts.
C14_AlertCountOnlyWithCompleted ==
    [][ /\ (run'.docs_status = "failed" /\ run.docs_status # "failed") =>
               run'.docs_alert_count = run.docs_alert_count
        /\ run'.docs_alert_count # run.docs_alert_count =>
               /\ run'.docs_status = "completed"
               /\ run'.docs_alert_count = Cardinality(run.alerts) ]_vars

\* `failed` was persisted over the Document record of the run.
C14_Witness ==
    /\ run.docs_status = "failed"
    /\ run.docs_alert_count = NoCount
    /\ run.status_log = <<"extracting", "failed">>

(***************************************************************************)
(* ChunkSpec: MarkdownChunker.chunk_document (markdown_chunker.py).  A     *)
(* Python str is the sequence of its characters, over the alphabet "#",    *)
(* " ", "\n" and letters; positions in the comments count from 0 as in the *)
(* code, indices of the sequences from 1.                                  *)
(***************************************************************************)

\* str.strip() and the regex class \s, on the alphabet.
IsSpace(c) == c \in {" ", "\n"}

RECURSIVE LStrip(_)
LStrip(s) == IF s # <<>> /\ IsSpace(Head(s)) THEN LStrip(Tail(s)) ELSE s

RECURSIVE RStrip(_)
RStrip(s) ==
    IF s # <<>> /\ IsSpace(s[Len(s)]) THEN RStrip(SubSeq(s, 1, Len(s) - 1)) ELSE s

\* str.strip()
Strip(s) == RStrip(LStrip(s))

\* s[a:b] for 0 <= a, b <= len(s)
Slice(s, a, b) == SubSeq(s, a + 1, b)

\* s.startswith(t)
StartsWith(s, t) == Len(s) >= Len(t) /\ SubSeq(s, 1, Len(t)) = t

\* s.split(sep): the pieces between the occurrences of sep, found from the
\* left; piece is the piece being read.
RECURSIVE SplitPieces(_, _, _)
SplitPieces(s, sep, piece) ==
    IF s = <<>> THEN <<piece>>
    ELSE IF StartsWith(s, sep)
    THEN <<piece>> \o SplitPieces(SubSeq(s, Len(sep) + 1, Len(s)), sep, <<>>)
    ELSE SplitPieces(Tail(s), sep, Append(piece, Head(s)))

Split(s, sep) == SplitPieces(s, sep, <<>>)

\* sep.join(parts)
RECURSIVE Join(_, _)
Join(parts, sep) ==
    IF parts = <<>> THEN <<>>
    ELSE IF Len(parts) = 1 THEN parts[1]
    ELSE parts[1] \o sep \o Join(Tail(parts), sep)

\* The number of characters of s from index p on that are in set S, up to
\* the first one that is not.
RECURSIVE RunLength(_, _, _)
RunLength(s, p, S) ==
    IF p <= Len(s) /\ s[p] \in S THEN 1 + RunLength(s, p + 1, S) ELSE 0

\* The characters the regex "." matches: all but the newline.
Dot == {"#", " ", "a", "b"}

NoMatch == [ok |-> FALSE, level |-> 0, text |-> <<>>, start |-> 0, end |-> 0]

\* A match of (.+)$ that begins at index q: the rest of the line.
HeaderMatch(md, p, k, q) ==
    [ok |-> TRUE, level |-> k, text |-> SubSeq(md, q, q + RunLength(md, q, Dot) - 1),
     start |-> p - 1, end |-> q + RunLength(md, q, Dot) - 1]

\* Line 22: a match of ^(#{1,6})\s+(.+)$ (MULTILINE) that begins at index p.
\* ^ holds at the start of the text and after a newline.  The hashes must be
\* all the hashes there (the next character has to be white space), one to
\* six of them.  \s+ takes all the white space that follows, newlines
\* included; when that reaches the end of the text it gives characters back
\* until (.+) finds a character that is not a newline.
MatchAt(md, p) ==
    LET k == RunLength(md, p, {"#"})
        w == RunLength(md, p + k, {" ", "\n"})
        q == p + k + w
        back == { s \in 1..(w - 1) : md[p + k + s] # "\n" }
    IN IF ~(p = 1 \/ md[p - 1] = "\n") \/ k < 1 \/ k > 6 \/ w < 1
       THEN NoMatch
       ELSE IF q <= Len(md)
       THEN HeaderMatch(md, p, k, q)
       ELSE IF back = {}
       THEN NoMatch
       ELSE HeaderMatch(md, p, k, p + k + (CHOOSE s \in back : \A t \in back : t <= s))

\* header_pattern.finditer(markdown): the matches from the left, the search
\* going on where the last match ended.
RECURSIVE FindIter(_, _)
FindIter(md, from) ==
    IF from > Len(md) THEN <<>>
    ELSE IF MatchAt(md, from).ok
    THEN <<MatchAt(md, from)>> \o FindIter(md, MatchAt(md, from).end + 1)
    ELSE FindIter(md, from + 1)

Document == <<"D", "o", "c", "u", "m", "e", "n", "t">>
Introduction == <<"I", "n", "t", "r", "o", "d", "u", "c", "t", "i", "o", "n">>

\* Lines 116-128: the section of match i.
HeaderSection(md, matches, i) ==
    LET end_pos == IF i + 1 <= Len(matches) THEN matches[i + 1].start ELSE Len(md)
    IN [header_level |-> matches[i].level,
        header_text |-> Strip(matches[i].text),
        content |-> Strip(Slice(md, matches[i].end, end_pos)),
        start_pos |-> matches[i].start,
        end_pos |-> end_pos]

\* A faulty header-less section: the text stripped like every other content.
NoHeaderSectionStripped(md) ==
    << [header_level |-> 0, header_text |-> Document, content |-> Strip(md),
        start_pos |-> 0, end_pos |-> Len(md)] >>

\* Line 104: no header, the whole text is one section.
NoHeaderSection(md) ==
    << [header_level |-> 0, header_text |-> Document, content |-> md,
        start_pos |-> 0, end_pos |-> Len(md)] >>

\* Lines 95-130: _split_by_headers.
SplitByHeaders(md) ==
    LET matches == FindIter(md, 1)
        intro == Strip(Slice(md, 0, matches[1].start))
        headers == [i \in 1..Len(matches) |-> HeaderSection(md, matches, i)]
    IN IF matches = <<>>
       THEN NoHeaderSection(md)
       ELSE IF matches[1].start > 0 /\ intro # <<>>
       THEN << [header_level |-> 0, header_text |-> Introduction, content |-> intro,
                start_pos |-> 0, end_pos |-> matches[1].start] >> \o headers
       ELSE headers

\* f"{n}" for a natural number n.
DigitChar(d) == <<"0", "1", "2", "3", "4", "5", "6", "7", "8", "9">>[d + 1]

RECURSIVE Decimal(_)
Decimal(n) == IF n < 10 THEN <<DigitChar(n)>> ELSE Append(Decimal(n \div 10), DigitChar(n % 10))

\* f"{n:0{width}d}": zeros in front up to the width, never a digit cut.
RECURSIVE ZeroPad(_, _)
ZeroPad(digits, width) ==
    IF Len(digits) >= width THEN digits ELSE ZeroPad(<<"0">> \o digits, width)

\* The header levels of the pattern, #{1,6}.
Levels == 1..6

\* Faulty counters: the deeper levels are not reset.
RECURSIVE LevelCountersNoReset(_, _)
LevelCountersNoReset(sections, i) ==
    IF i = 0 THEN [l \in Levels |-> 0]
    ELSE LET before == LevelCountersNoReset(sections, i - 1)
             level == sections[i].header_level
         IN IF level = 0 THEN before
            ELSE [l \in Levels |-> IF l = level THEN before[l] + 1 ELSE before[l]]

\* Lines 146-162: level_counters after the sections 0..i-1 of the list (the
\* first i); 0 stands for a level that is not a key of the dict.
RECURSIVE LevelCounters(_, _)
LevelCounters(sections, i) ==
    IF i = 0 THEN [l \in Levels |-> 0]
    ELSE LET before == LevelCounters(sections, i - 1)
             level == sections[i].header_level
         IN IF level = 0 THEN before
            ELSE [l \in Levels |-> IF l = level THEN before[l] + 1
                                   ELSE IF l > level THEN 0 ELSE before[l]]

\* Lines 169-176: for j in range(i + 1): if lj == l: ...; break.  The first
\* header of level l among the first i sections.
FirstAtLevel(sections, i, l) ==
    LET js == { j \in 1..i : sections[j].header_level = l }
    IN CHOOSE j \in js : \A k \in js : j <= k

\* Lines 166-176: the path parts for the levels l..6 that are keys of the
\* counters, in increasing order.
RECURSIVE PathParts(_, _, _, _)
PathParts(sections, i, counters, l) ==
    IF l > 6 THEN <<>>
    ELSE IF counters[l] > 0
    THEN << Decimal(counters[l]) \o <<".", " ">>
               \o sections[FirstAtLevel(sections, i, l)].header_text >>
         \o PathParts(sections, i, counters, l + 1)
    ELSE PathParts(sections, i, counters, l + 1)

\* Lines 132-179: _build_section_path for section i (counted from 1).
BuildSectionPath(sections, i, current_level, current_header) ==
    LET path_parts == PathParts(sections, i, LevelCounters(sections, i), 1)
    IN IF current_level = 0 THEN current_header
       ELSE IF path_parts # <<>> THEN Join(path_parts, <<"/">>) ELSE current_header

\* Lines 181-200: _get_page_range.
RECURSIVE PageRangeLoop(_, _, _, _, _)
PageRangeLoop(start_pos, end_pos, page_map, page_start, page_end) ==
    IF page_map = <<>> THEN <<page_start, IF page_start > page_end THEN page_start ELSE page_end>>
    ELSE LET e == Head(page_map)
         IN PageRangeLoop(start_pos, end_pos, Tail(page_map),
              IF start_pos >= e.char_start /\ start_pos <= e.char_end THEN e.page_num ELSE page_start,
              IF end_pos >= e.char_start /\ end_pos <= e.char_end THEN e.page_num ELSE page_end)

GetPageRange(start_pos, end_pos, page_map) ==
    IF page_map = <<>> THEN <<1, 1>>
    ELSE PageRangeLoop(start_pos, end_pos, page_map, 1, 1)

\* The document of the call.
DocIdChars == <<"d">>

\* Line 61: f"{doc_id}_chunk_{i:04d}", i counted from 0.
ChunkId(doc_id, i) ==
    doc_id \o <<"_", "c", "h", "u", "n", "k", "_">> \o ZeroPad(Decimal(i), 4)

\* A faulty sub-chunk id: every sub-chunk numbered 00.
SubChunkIdSame(doc_id, base_idx, chunk_num) ==
    ChunkId(doc_id, base_idx) \o <<"_", "s", "u", "b">> \o ZeroPad(Decimal(0), 2)

\* Lines 264 and 277: f"{chunk.doc_id}_chunk_{base_idx:04d}_sub{chunk_num:02d}"
SubChunkId(doc_id, base_idx, chunk_num) ==
    ChunkId(doc_id, base_idx) \o <<"_", "s", "u", "b">> \o ZeroPad(Decimal(chunk_num), 2)

RECURSIVE Hashes(_)
Hashes(n) == IF n = 0 THEN <<>> ELSE <<"#">> \o Hashes(n - 1)

\* Line 82: content_md.
ContentMd(header_level, header_text, content) ==
    IF header_level > 0
    THEN Strip(Hashes(header_level) \o <<" ">> \o header_text \o <<"\n", "\n">> \o content)
    ELSE content

\* None, for parent_chunk_id (a str) and header_level (an int).
NoId == <<>>
NoLevel == 0

\* Lines 53-84: the Chunk of section i (counted from 0).
MakeChunk(sections, i, doc_id, page_map) ==
    LET s == sections[i + 1]
        pages == GetPageRange(s.start_pos, s.end_pos, page_map)
    IN [chunk_id |-> ChunkId(doc_id, i),
        doc_id |-> doc_id,
        section_path |-> BuildSectionPath(sections, i + 1, s.header_level, s.header_text),
        page_start |-> pages[1],
        page_end |-> pages[2],
        content_md |-> ContentMd(s.header_level, s.header_text, s.content),
        parent_chunk_id |-> NoId,
        header_level |-> IF s.header_level > 0 THEN s.header_level ELSE NoLevel]

\* Lines 263-267 and 276-280: the copy of the chunk with its own id and
\* content and the chunk's id as parent.
SubChunk(chunk, base_idx, chunk_num, current_content) ==
    [chunk EXCEPT !.chunk_id = SubChunkId(chunk.doc_id, base_idx, chunk_num),
                  !.content_md = Strip(current_content),
                  !.parent_chunk_id = chunk.chunk_id]

\* Lines 260-272, one pass of the loop over the paragraphs.
ParagraphStep(st, para, chunk, base_idx, header, max_chunk_size) ==
    IF Len(st.current_content) + Len(para) > max_chunk_size /\ Strip(st.current_content) # <<>>
    THEN [sub_chunks |-> Append(st.sub_chunks,
                                SubChunk(chunk, base_idx, st.chunk_num, st.current_content)),
          current_content |-> IF header # <<>> THEN header \o <<"\n", "\n">> \o para ELSE para,
          chunk_num |-> st.chunk_num + 1]
    ELSE [st EXCEPT !.current_content =
             IF Strip(st.current_content) # <<>>
             THEN st.current_content \o <<"\n", "\n">> \o para
             ELSE para]

RECURSIVE ParagraphLoop(_, _, _, _, _, _)
ParagraphLoop(st, paragraphs, chunk, base_idx, header, max_chunk_size) ==
    IF paragraphs = <<>> THEN st
    ELSE ParagraphLoop(ParagraphStep(st, Head(paragraphs), chunk, base_idx, header, max_chunk_size),
                       Tail(paragraphs), chunk, base_idx, header, max_chunk_size)

\* Lines 246-282: _split_large_chunk.
SplitLargeChunk(chunk, base_idx, max_chunk_size) ==
    LET content == chunk.content_md
        lines == Split(content, <<"\n">>)
        header == IF StartsWith(lines[1], <<"#">>) THEN lines[1] ELSE <<>>
        body == IF header # <<>> THEN Join(Tail(lines), <<"\n">>) ELSE content
        paragraphs == Split(body, <<"\n", "\n">>)
        st == ParagraphLoop([sub_chunks |-> <<>>,
                             current_content |-> IF header # <<>>
                                                 THEN header \o <<"\n", "\n">> ELSE <<>>,
                             chunk_num |-> 0],
                            paragraphs, chunk, base_idx, header, max_chunk_size)
    IN IF Strip(st.current_content) # <<>>
       THEN Append(st.sub_chunks, SubChunk(chunk, base_idx, st.chunk_num, st.current_content))
       ELSE st.sub_chunks

\* Lines 86-91: what section i (counted from 0) adds to chunks.
ChunksOfSection(sections, i, doc_id, page_map, max_chunk_size) ==
    LET chunk == MakeChunk(sections, i, doc_id, page_map)
    IN IF Len(chunk.content_md) > max_chunk_size
       THEN SplitLargeChunk(chunk, i, max_chunk_size)
       ELSE <<chunk>>

\* The chunker is called with max_chunk_size = ChunkSize on texts of at most
\* MaxLines lines (ChunkSpec) or MaxHeaders lines (PathSpec).
ChunkSize == 6
MaxLines == 5
MaxHeaders == 4

\* The lines of the texts of ChunkSpec: a header, paragraphs of two and
\* three characters, a blank line, a paragraph longer than ChunkSize, and a
\* line of spaces.
SizeLines ==
    { <<"#", " ", "a">>, <<"b", "b">>, <<"b", "b", "b">>, <<>>,
      <<"a", "a", "a", "a", "a", "a", "a">>, <<" ", " ", " ">> }

\* The lines of the texts of PathSpec: headers of three levels and a line of
\* text.
HeaderLines ==
    { <<"#", " ", "a">>, <<"#", " ", "b">>, <<"#", "#", " ", "a">>,
      <<"#", "#", " ", "b">>, <<"#", "#", "#", " ", "a">>, <<"a">> }

\* The call chunk_document(markdown, doc_id, ...) before its first line.
Called(markdown) ==
    [pc |-> "split_by_headers", markdown |-> markdown, sections |-> <<>>, i |-> 0,
     chunks |-> <<>>, produced |-> <<>>]

\* Line 51: sections = self._split_by_headers(markdown)
SplitSections(c) ==
    [c EXCEPT !.sections = SplitByHeaders(c.markdown), !.pc = "loop"]

\* Lines 53-91, one pass of the loop: the chunk of section i, split when it
\* is too large.  produced keeps, for every section, its chunk and what went
\* into chunks for it.
ChunkSection(c, page_map, max_chunk_size) ==
    LET emitted == ChunksOfSection(c.sections, c.i, DocIdChars, page_map, max_chunk_size)
    IN [c EXCEPT !.chunks = c.chunks \o emitted,
                 !.produced = Append(c.produced,
                                     [chunk |-> MakeChunk(c.sections, c.i, DocIdChars, page_map),
                                      emitted |-> emitted]),
                 !.i = c.i + 1]

\* Line 93: return chunks
ReturnChunks(c) == [c EXCEPT !.pc = "returned"]

ChunkInit ==
    /\ run = InitRun
    /\ shadow = InitRun
    /\ linker = NotCalled
    /\ parser = NotCalled
    /\ embedder = NotCalled
    /\ handler = NotCalled
    /\ extractor = NotCalled
    /\ \E lines \in SeqsUpTo(SizeLines, MaxLines) : chunker = Called(Join(lines, <<"\n">>))

PathInit ==
    /\ run = InitRun
    /\ shadow = InitRun
    /\ linker = NotCalled
    /\ parser = NotCalled
    /\ embedder = NotCalled
    /\ handler = NotCalled
    /\ extractor = NotCalled
    /\ \E lines \in SeqsUpTo(HeaderLines, MaxHeaders) : chunker = Called(Join(lines, <<"\n">>))

DoSplitSections ==
    /\ chunker.pc = "split_by_headers"
    /\ chunker' = SplitSections(chunker)
    /\ UNCHANGED <<run, shadow, embedder, handler, extractor, linker, parser>>

\* The pipeline passes no page_map.
DoChunkSection ==
    /\ chunker.pc = "loop"
    /\ chunker.i < Len(chunker.sections)
    /\ chunker' = ChunkSection(chunker, <<>>, ChunkSize)
    /\ UNCHANGED <<run, shadow, embedder, handler, extractor, linker, parser>>

DoReturnChunks ==
    /\ chunker.pc = "loop"
    /\ chunker.i >= Len(chunker.sections)
    /\ chunker' = ReturnChunks(chunker)
    /\ UNCHANGED <<run, shadow, embedder, handler, extractor, linker, parser>>

ChunkNext == DoSplitSections \/ DoChunkSection \/ DoReturnChunks

ChunkSpec == ChunkInit /\ [][ChunkNext]_vars

PathSpec == PathInit /\ [][ChunkNext]_vars

\* The text holds no header line: the pattern matches nowhere.
NoHeaderLine(markdown) == FindIter(markdown, 1) = <<>>

NearestAtLevel(sections, i, l) ==
    LET js == { j \in 1..i : sections[j].header_level = l }
    IN CHOOSE j \in js : \A k \in js : k <= j

\* The path parts with the header texts of the section and of its ancestors.
RECURSIVE AncestorParts(_, _, _, _)
AncestorParts(sections, i, counters, l) ==
    IF l > 6 THEN <<>>
    ELSE IF counters[l] > 0
    THEN << Decimal(counters[l]) \o <<".", " ">>
               \o sections[NearestAtLevel(sections, i, l)].header_text >>
         \o AncestorParts(sections, i, counters, l + 1)
    ELSE AncestorParts(sections, i, counters, l + 1)

\* C16: the section path of every section with a header is the "/"-joined
\* chain of "{ordinal}. {header text}", the last component with the
\* section's own header text and each earlier one with the text of the
\* section's ancestor at that level.
C16_PathNamesSectionAndAncestors ==
    \A k \in 1..Len(chunker.produced) :
        chunker.sections[k].header_level >= 1 =>
            chunker.produced[k].chunk.section_path =
                Join(AncestorParts(chunker.sections, k, LevelCounters(chunker.sections, k), 1),
                     <<"/">>)

\* The parent of section i: the nearest section before it with a header of a
\* shallower level; 0 when there is none.
Parent(sections, i) ==
    LET js == { j \in 1..(i - 1) : /\ sections[j].header_level >= 1
                                   /\ sections[j].header_level < sections[i].header_level }
    IN IF js = {} THEN 0 ELSE CHOOSE j \in js : \A k \in js : k <= j

\* Sections i and j are sibling headers: the same level and the same parent.
Siblings(sections, i, j) ==
    /\ sections[i].header_level >= 1
    /\ sections[i].header_level = sections[j].header_level
    /\ Parent(sections, i) = Parent(sections, j)

\* The path of section i as far as its parent reaches: the parent's path and
\* "/", or nothing for a section without parent.
ParentPrefix(c, i) ==
    IF Parent(c.sections, i) = 0 THEN <<>>
    ELSE c.produced[Parent(c.sections, i)].chunk.section_path \o <<"/">>

\* path is prefix, then the ordinal n, ". " and a header text of the document.
HasOrdinal(c, path, prefix, n) ==
    \E k \in 1..Len(c.sections) :
        path = prefix \o Decimal(n) \o <<".", " ">> \o c.sections[k].header_text

\* C17: sibling headers have distinct section paths, the same up to the
\* ordinal of their level, and the ordinals grow in document order; the path
\* of a nested header begins with the path of its parent and "/".
C17_SiblingsNumberedUnderParentPath ==
    /\ \A i, j \in 1..Len(chunker.produced) :
          (i < j /\ Siblings(chunker.sections, i, j)) =>
              /\ chunker.produced[i].chunk.section_path # chunker.produced[j].chunk.section_path
              /\ \E m, n \in 1..Len(chunker.sections) :
                    /\ m < n
                    /\ HasOrdinal(chunker, chunker.produced[i].chunk.section_path,
                                  ParentPrefix(chunker, i), m)
                    /\ HasOrdinal(chunker, chunker.produced[j].chunk.section_path,
                                  ParentPrefix(chunker, j), n)
    /\ \A i \in 1..Len(chunker.produced) :
          Parent(chunker.sections, i) # 0 =>
              StartsWith(chunker.produced[i].chunk.section_path, ParentPrefix(chunker, i))

\* Four headers chunked: '# a', '### a', '## b', '## a' -- two siblings under
\* the first header, after a deeper header of another level.
C17_Witness ==
    /\ chunker.pc = "returned"
    /\ Len(chunker.sections) = 4
    /\ chunker.sections[1].header_level = 1
    /\ chunker.sections[2].header_level = 3
    /\ Siblings(chunker.sections, 3, 4)
    /\ Parent(chunker.sections, 4) = 1
    /\ chunker.produced[4].chunk.section_path =
           <<"1", ".", " ", "a", "/", "2", ".", " ", "b">>

\* The chunk of a section was too large and went through _split_large_chunk.
WasSplit(p) == Len(p.chunk.content_md) > ChunkSize

\* The content holds a paragraph (a block between blank lines) that is by
\* itself longer than max_chunk_size.
HoldsLongParagraph(content) ==
    \E k \in 1..Len(Split(content, <<"\n", "\n">>)) :
        Len(Split(content, <<"\n", "\n">>)[k]) > ChunkSize

\* C18: every sub-chunk of a split section is at most max_chunk_size
\* characters long, unless it holds a paragraph that is longer by itself.
C18_SubChunksWithinSize ==
    \A k \in 1..Len(chunker.produced) :
        WasSplit(chunker.produced[k]) =>
            \A n \in 1..Len(chunker.produced[k].emitted) :
                \/ Len(chunker.produced[k].emitted[n].content_md) <= ChunkSize
                \/ HoldsLongParagraph(chunker.produced[k].emitted[n].content_md)

\* C19: every section whose chunk is longer than max_chunk_size, with or
\* without a header, puts at least two sub-chunks into the result.
C19_OversizedSectionIsSplitInTwo ==
    \A k \in 1..Len(chunker.produced) :
        WasSplit(chunker.produced[k]) => Len(chunker.produced[k].emitted) >= 2

\* C20: no two chunks of the result have the same chunk_id; the sub-chunks of
\* a split section carry the section's path and, as parent_chunk_id, the id
\* of the section's unsplit chunk, and an unsplit chunk has no parent.
C20_ChunkIdsUniqueSubChunksShareParent ==
    /\ \A a, b \in 1..Len(chunker.chunks) :
          a # b => chunker.chunks[a].chunk_id # chunker.chunks[b].chunk_id
    /\ \A k \in 1..Len(chunker.produced) :
          /\ chunker.produced[k].chunk.chunk_id = ChunkId(DocIdChars, k - 1)
          /\ IF WasSplit(chunker.produced[k])
             THEN \A n \in 1..Len(chunker.produced[k].emitted) :
                     /\ chunker.produced[k].emitted[n].section_path =
                            chunker.produced[k].chunk.section_path
                     /\ chunker.produced[k].emitted[n].parent_chunk_id =
                            chunker.produced[k].chunk.chunk_id
             ELSE /\ chunker.produced[k].emitted = <<chunker.produced[k].chunk>>
                  /\ chunker.produced[k].chunk.parent_chunk_id = NoId

\* A result with an unsplit chunk and a section split into three sub-chunks.
C20_Witness ==
    /\ chunker.pc = "returned"
    /\ \E j, k \in 1..Len(chunker.produced) :
          /\ ~WasSplit(chunker.produced[j])
          /\ WasSplit(chunker.produced[k])
          /\ Len(chunker.produced[k].emitted) >= 3

(***************************************************************************)
(* MarkdownChunker.link_alerts_to_chunks                                   *)
(* (src/processor/chunkers/markdown_chunker.py, lines 284-308).            *)
(*                                                                         *)
(* An alert is a record of the fields the function reads and writes:       *)
(* page_start, page_end, severity, category, evidence_chunk_ids.  A chunk  *)
(* is a record of chunk_id, page_start, page_end, section_path.  Strings   *)
(* are sequences of characters; a chunk_id is the chunk's ordinal, which   *)
(* stands for '<doc_id>_chunk_<ordinal:04d>'.                              *)
(***************************************************************************)

\* Bound: the number of chunks handed to the function.
MaxLinkChunks == 6

\* Bound: the number of alerts handed to the function.
MaxLinkAlerts == 1

\* Line 306: [:5]
EvidenceLimit == 5

\* Severity.LOW, Severity.INFO (shared/models/alert.py, lines 9-16).
SeverityValues == { <<"l", "o", "w">>, <<"i", "n", "f", "o">> }

\* Category.BW, Category.OTHER (shared/models/alert.py, lines 19-30).
CategoryValues == { <<"b", "w">>, <<"o", "t", "h", "e", "r">> }

\* The section paths of the chunks: '1. Low', '1. BW', '1. a'.
SectionPaths ==
    { <<"1", ".", " ", "L", "o", "w">>, <<"1", ".", " ", "B", "W">>,
      <<"1", ".", " ", "a">> }

\* The page bounds of an alert and of a chunk.
AlertPages == { <<3, 4>>, <<6, 6>> }
ChunkPages == { <<1, 1>>, <<4, 5>> }

\* str.lower() on one character.
LowerChar(ch) ==
    CASE ch = "L" -> "l"
      [] ch = "B" -> "b"
      [] ch = "W" -> "w"
      [] OTHER -> ch

\* str.lower()
LowerStr(s) == [i \in 1..Len(s) |-> LowerChar(s[i])]

\* Python's `t in s` for strings.
Contains(t, s) ==
    \E i \in 0..(Len(s) - Len(t)) : SubSeq(s, i + 1, i + Len(t)) = t

\* Mutant of PageOverlap: ranges that only touch do not overlap.
PageOverlapStrict(chunk, alert) ==
    /\ chunk.page_start < alert.page_end
    /\ chunk.page_end > alert.page_start

\* Lines 291-294: page_overlap
PageOverlap(chunk, alert) ==
    /\ chunk.page_start <= alert.page_end
    /\ chunk.page_end >= alert.page_start

\* Lines 297-301: section_match (a Severity or Category member is a
\* non-empty str and therefore true).
SectionMatch(chunk, alert) ==
    \/ Contains(alert.severity, LowerStr(chunk.section_path))
    \/ Contains(alert.category, LowerStr(chunk.section_path))

\* Line 303: if page_overlap or section_match
Qualifies(chunk, alert) ==
    PageOverlap(chunk, alert) \/ SectionMatch(chunk, alert)

\* Lines 288-304: evidence_ids after the loop over the chunks.
EvidenceIds(alert, chunks) ==
    LET hit(c) == Qualifies(c, alert)
        hits == SelectSeq(chunks, hit)
    IN  [i \in 1..Len(hits) |-> hits[i].chunk_id]

\* set(evidence_ids)
SetOf(ids) == { ids[i] : i \in 1..Len(ids) }

\* list(S) of a set S of strings: the iteration order of a set depends on
\* the hashes of its elements, and str hashes are salted per process
\* (PYTHONHASHSEED), so every order of the elements can come out.
RECURSIVE ListsOfSet(_)
ListsOfSet(S) ==
    IF S = {} THEN { <<>> }
    ELSE UNION { { <<x>> \o rest : rest \in ListsOfSet(S \ {x}) } : x \in S }

\* Mutant of Truncated: the list is not cut.
TruncatedNot(ids) == ids

\* Line 306: [:5]
Truncated(ids) ==
    SubSeq(ids, 1, IF Len(ids) < EvidenceLimit THEN Len(ids) ELSE EvidenceLimit)

\* Line 306: the values alert.evidence_chunk_ids can take.
EvidenceChoices(alert, chunks) ==
    { Truncated(l) : l \in ListsOfSet(SetOf(EvidenceIds(alert, chunks))) }

\* The chunks of a call: ordinals 1..n, the page bounds and section paths
\* of two kinds of chunk in turn.
ChunkKinds == ChunkPages \X SectionPaths

LinkChunk(i, kind) ==
    [chunk_id |-> i, page_start |-> kind[1][1], page_end |-> kind[1][2],
     section_path |-> kind[2]]

LinkChunksIn(n, k1, k2) ==
    [i \in 1..n |-> LinkChunk(i, IF i % 2 = 1 THEN k1 ELSE k2)]

\* The alerts of a call, as extract_alerts built them (no evidence yet).
AlertKinds ==
    { [page_start |-> p[1], page_end |-> p[2], severity |-> s, category |-> c,
       evidence_chunk_ids |-> <<>>] :
      p \in AlertPages, s \in SeverityValues, c \in CategoryValues }

\* Line 286-306: one turn of `for alert in alerts`.
LinkAlert(l, evidence) ==
    [l EXCEPT !.alerts[l.i + 1].evidence_chunk_ids = evidence, !.i = l.i + 1]

\* Line 308: return alerts
ReturnAlerts(l) == [l EXCEPT !.pc = "returned"]

\* A second execution of the function on the alerts and chunks of the
\* first one.
CallAgain(l) == [l EXCEPT !.pc = "linking", !.i = 0, !.calls = 2]

\* search_indexer.py, lines 100 and 194: the alert documents handed to
\* upload_documents carry the alert's evidence_chunk_ids.
AlertToDict(alert) == [evidence_chunk_ids |-> alert.evidence_chunk_ids]

IndexLinkedAlerts(l) ==
    [l EXCEPT !.pc = "indexed",
              !.alert_dicts = [k \in 1..Len(l.alerts) |-> AlertToDict(l.alerts[k])]]

LinkInit ==
    /\ run = InitRun
    /\ shadow = InitRun
    /\ embedder = NotCalled
    /\ chunker = NotCalled
    /\ handler = NotCalled
    /\ extractor = NotCalled
    /\ parser = NotCalled
    /\ \E alerts \in SeqsUpTo(AlertKinds, MaxLinkAlerts) :
       \E n \in 0..MaxLinkChunks : \E k1, k2 \in ChunkKinds :
          linker = [pc |-> "linking", alerts |-> alerts,
                    chunks |-> LinkChunksIn(n, k1, k2), i |-> 0, calls |-> 1,
                    alert_dicts |-> <<>>]

LinkFrame == UNCHANGED <<run, shadow, embedder, chunker, handler, extractor, parser>>

DoLinkAlert ==
    /\ linker.pc = "linking"
    /\ linker.i < Len(linker.alerts)
    /\ \E evidence \in EvidenceChoices(linker.alerts[linker.i + 1], linker.chunks) :
          linker' = LinkAlert(linker, evidence)
    /\ LinkFrame

DoReturnAlerts ==
    /\ linker.pc = "linking"
    /\ linker.i = Len(linker.alerts)
    /\ linker' = ReturnAlerts(linker)
    /\ LinkFrame

DoCallAgain ==
    /\ linker.pc = "returned"
    /\ linker.calls = 1
    /\ linker' = CallAgain(linker)
    /\ LinkFrame

DoIndexLinkedAlerts ==
    /\ linker.pc = "returned"
    /\ linker' = IndexLinkedAlerts(linker)
    /\ LinkFrame

LinkNext ==
    \/ DoLinkAlert
    \/ DoReturnAlerts
    \/ DoIndexLinkedAlerts

LinkSpec == LinkInit /\ [][LinkNext]_vars

\* The chunks of the call that overlap the alert's pages or name its
\* severity or category in their lower-cased section path.
QualifyingChunks(a) ==
    { k \in 1..Len(linker.chunks) :
        LET c == linker.chunks[k]
        IN  \/ (c.page_start <= a.page_end /\ c.page_end >= a.page_start)
            \/ Contains(a.severity, LowerStr(c.section_path))
            \/ Contains(a.category, LowerStr(c.section_path)) }

\* C21: after link_alerts_to_chunks has returned, for every alert for
\* which at most 5 chunks qualify and for every chunk, the chunk's id is
\* in the alert's evidence_chunk_ids if and only if the chunk's page range
\* overlaps the alert's or the alert's severity or category value is a
\* substring of the lower-cased section path.
C21_EvidenceIffOverlapOrSectionMatch ==
    linker.pc \in {"returned", "indexed"} =>
        \A j \in 1..Len(linker.alerts) :
            LET a == linker.alerts[j]
            IN  Cardinality(QualifyingChunks(a)) <= 5 =>
                    \A k \in 1..Len(linker.chunks) :
                        linker.chunks[k].chunk_id \in SetOf(a.evidence_chunk_ids)
                            <=> k \in QualifyingChunks(a)

\* An alert of pages 3-4 is linked to a chunk of pages 4..5 that does not
\* match by section, to a chunk of page 1 whose path names the alert's
\* severity, and not to a chunk of page 1 that matches nothing.
C21_Witness ==
    /\ linker.pc = "returned"
    /\ Len(linker.alerts) = 1
    /\ linker.alerts[1].page_start = 3
    /\ linker.alerts[1].page_end = 4
    /\ \E k \in 1..Len(linker.chunks) :
          /\ linker.chunks[k].page_start = 4
          /\ linker.chunks[k].page_end = 5
          /\ ~SectionMatch(linker.chunks[k], linker.alerts[1])
          /\ k \in SetOf(linker.alerts[1].evidence_chunk_ids)
    /\ \E k \in 1..Len(linker.chunks) :
          /\ linker.chunks[k].page_start = 1
          /\ k \in SetOf(linker.alerts[1].evidence_chunk_ids)

\* A list of evidence ids as the claim allows it: at most 5 entries, no
\* entry twice, every entry the chunk_id of a chunk of the call.
WellFormedEvidence(ids) ==
    /\ Len(ids) <= 5
    /\ \A m, n \in 1..Len(ids) : m # n => ids[m] # ids[n]
    /\ \A m \in 1..Len(ids) :
          \E k \in 1..Len(linker.chunks) : linker.chunks[k].chunk_id = ids[m]

\* C22: from the moment an alert has been linked, in every later state of
\* the call and of the indexing that follows it, the alert's
\* evidence_chunk_ids has at most 5 entries, has no duplicate entry and
\* holds only chunk_ids of the chunks produced in this run; the alert
\* documents handed to the index carry the same list.
C22_EvidenceAtMostFiveDistinctOwnChunks ==
    /\ \A j \in 1..Len(linker.alerts) :
          (j <= linker.i \/ linker.calls = 2) =>
              WellFormedEvidence(linker.alerts[j].evidence_chunk_ids)
    /\ linker.pc = "indexed" =>
          \A j \in 1..Len(linker.alerts) :
              /\ WellFormedEvidence(linker.alert_dicts[j].evidence_chunk_ids)
              /\ linker.alert_dicts[j].evidence_chunk_ids
                    = linker.alerts[j].evidence_chunk_ids

\* Six chunks qualify for an alert, and the alert document handed to the
\* index holds five of them.
C22_Witness ==
    /\ linker.pc = "indexed"
    /\ Len(linker.alerts) = 1
    /\ Cardinality(QualifyingChunks(linker.alerts[1])) = 6
    /\ Len(linker.alert_dicts[1].evidence_chunk_ids) = 5

(***************************************************************************)
(* Two executions of link_alerts_to_chunks on the same alerts and chunks.  *)
(* The second execution is a call in any process of the function app, so   *)
(* its list(set(...)) is again any order of the same ids.  The chunks are  *)
(* without a section match here: they qualify by their pages alone.        *)
(***************************************************************************)
RelinkKinds == ChunkPages \X { <<"1", ".", " ", "a">> }

RelinkInit ==
    /\ run = InitRun
    /\ shadow = InitRun
    /\ embedder = NotCalled
    /\ chunker = NotCalled
    /\ handler = NotCalled
    /\ extractor = NotCalled
    /\ parser = NotCalled
    /\ \E alerts \in SeqsUpTo(AlertKinds, MaxLinkAlerts) :
       \E n \in 0..MaxLinkChunks : \E k1, k2 \in RelinkKinds :
          linker = [pc |-> "linking", alerts |-> alerts,
                    chunks |-> LinkChunksIn(n, k1, k2), i |-> 0, calls |-> 1,
                    alert_dicts |-> <<>>]

RelinkNext ==
    \/ LinkNext
    \/ DoCallAgain

RelinkSpec == RelinkInit /\ [][RelinkNext]_vars

\* C23: the second execution of link_alerts_to_chunks on the same alerts
\* and chunks gives every alert the evidence_chunk_ids the first execution
\* gave it, also when more than 5 chunks qualify.  The lists are compared
\* as sets of ids: a different order alone is not counted as a difference.
C23_RelinkingGivesSameEvidence ==
    [][(linker.calls = 2 /\ linker.pc = "linking" /\ linker'.i = linker.i + 1)
           => SetOf(linker'.alerts[linker'.i].evidence_chunk_ids)
                 = SetOf(linker.alerts[linker'.i].evidence_chunk_ids)]_vars

(***************************************************************************)
(* _parse_page_bounds and the page fields of the alerts that               *)
(* VisionAlertExtractor.extract_alerts builds                              *)
(* (src/processor/extractors/alert_extractor.py, lines 72-84, 292-306).    *)
(* A page_range is a sequence of characters, or NoneRange for a JSON null. *)
(***************************************************************************)

\* Bound: the length of a page_range string.
MaxRangeLen == 5

\* The characters of a page_range string.
RangeChars == {"3", "4", "-", " ", "x"}

\* The caller's default_page; extract_alerts passes 1 (line 293).
DefaultPages == {1, 2}

\* page_range is None.
NoneRange == <<"None">>

PageRanges == SeqsUpTo(RangeChars, MaxRangeLen) \cup {NoneRange}

\* The characters \d matches.
Digits == {"0", "1", "2", "3", "4", "5", "6", "7", "8", "9"}

DigitValue(ch) == CHOOSE d \in 0..9 : DigitChar(d) = ch

\* int(s) for a string of digits.
RECURSIVE IntOf(_)
IntOf(s) ==
    IF s = <<>> THEN 0
    ELSE 10 * IntOf(SubSeq(s, 1, Len(s) - 1)) + DigitValue(s[Len(s)])

\* Line 74: text = str(page_range or "").strip()
PageRangeText(page_range) ==
    IF page_range = NoneRange THEN <<>> ELSE Strip(page_range)

NoPageMatch == [ok |-> FALSE, group1 |-> <<>>, group2 |-> <<>>]

\* Line 78: re.match(r"^(\d+)\s*(?:-\s*(\d+))?$", text).  The classes of
\* the pattern are disjoint, so the match is found without choice: all the
\* leading digits, all the white space after them, then either the end of
\* the text (group 2 is None, here the empty string) or a dash, white
\* space and digits up to the end.  The text is stripped, so $ holds at
\* its end only.
PageRangeMatch(text) ==
    LET d1 == RunLength(text, 1, Digits)
        p2 == 1 + d1 + RunLength(text, 1 + d1, {" ", "\n"})
        p3 == p2 + 1 + RunLength(text, p2 + 1, {" ", "\n"})
        d2 == RunLength(text, p3, Digits)
    IN  IF d1 = 0 THEN NoPageMatch
        ELSE IF p2 > Len(text)
             THEN [ok |-> TRUE, group1 |-> SubSeq(text, 1, d1), group2 |-> <<>>]
        ELSE IF text[p2] = "-" /\ d2 >= 1 /\ p3 + d2 > Len(text)
             THEN [ok |-> TRUE, group1 |-> SubSeq(text, 1, d1),
                   group2 |-> SubSeq(text, p3, p3 + d2 - 1)]
        ELSE NoPageMatch

\* Faulty end of the range: group 2 is not read.
EndOfMatchIsStart(match) == IntOf(match.group1)

\* Line 83: end = int(match.group(2) or start)
EndOfMatch(match) ==
    IF match.group2 # <<>> THEN IntOf(match.group2) ELSE IntOf(match.group1)

\* Lines 72-84: _parse_page_bounds
ParsePageBounds(page_range, default_page) ==
    LET text == PageRangeText(page_range)
        match == PageRangeMatch(text)
    IN  IF text = <<>> THEN <<default_page, default_page>>
        ELSE IF ~match.ok THEN <<default_page, default_page>>
        ELSE <<IntOf(match.group1), EndOfMatch(match)>>

\* Line 293: the call of _parse_page_bounds in extract_alerts.
ParseCalled(page_range, default_page) ==
    [pc |-> "called", page_range |-> page_range, default_page |-> default_page,
     bounds |-> <<0, 0>>, alert |-> [page_start |-> 0, page_end |-> 0]]

ParseReturn(p) ==
    [p EXCEPT !.pc = "returned",
              !.bounds = ParsePageBounds(p.page_range, p.default_page)]

\* Lines 294-306: Alert(..., page_start=page_start, page_end=page_end, ...);
\* the model declares both fields as int and nothing more.
BuildAlert(p) ==
    [p EXCEPT !.pc = "alert_built",
              !.alert = [page_start |-> p.bounds[1], page_end |-> p.bounds[2]]]

ParseInit ==
    /\ run = InitRun
    /\ shadow = InitRun
    /\ embedder = NotCalled
    /\ chunker = NotCalled
    /\ handler = NotCalled
    /\ extractor = NotCalled
    /\ linker = NotCalled
    /\ \E page_range \in PageRanges : \E default_page \in DefaultPages :
          parser = ParseCalled(page_range, default_page)

ParseFrame == UNCHANGED <<run, shadow, embedder, chunker, handler, extractor, linker>>

DoParsePageBounds ==
    /\ parser.pc = "called"
    /\ parser' = ParseReturn(parser)
    /\ ParseFrame

DoBuildAlert ==
    /\ parser.pc = "returned"
    /\ parser' = BuildAlert(parser)
    /\ ParseFrame

ParseNext == DoParsePageBounds \/ DoBuildAlert

ParseSpec == ParseInit /\ [][ParseNext]_vars

\* A string of one or more digits.
IsNumber(s) == s # <<>> /\ \A i \in 1..Len(s) : s[i] \in Digits

\* The places of a dash that has a number on each side.
DashPlaces(s) ==
    { i \in 1..Len(s) :
        /\ s[i] = "-"
        /\ IsNumber(SubSeq(s, 1, i - 1))
        /\ IsNumber(SubSeq(s, i + 1, Len(s))) }

\* The same with white space allowed on both sides of the dash.
SpacedDashPlaces(s) ==
    { i \in 1..Len(s) :
        /\ s[i] = "-"
        /\ IsNumber(RStrip(SubSeq(s, 1, i - 1)))
        /\ IsNumber(LStrip(SubSeq(s, i + 1, Len(s)))) }

\* The string is "a-b", and the bounds are (a, b).
IsRangeOf(s, bounds) ==
    \E i \in DashPlaces(s) :
        bounds = <<IntOf(SubSeq(s, 1, i - 1)), IntOf(SubSeq(s, i + 1, Len(s)))>>

\* The string is "a-b" with white space allowed on both sides of the dash,
\* and the bounds are (a, b).
IsSpacedRangeOf(s, bounds) ==
    \E i \in SpacedDashPlaces(s) :
        bounds = <<IntOf(RStrip(SubSeq(s, 1, i - 1))),
                   IntOf(LStrip(SubSeq(s, i + 1, Len(s))))>>

IsRange(s) == DashPlaces(s) # {}

IsSpacedRange(s) == SpacedDashPlaces(s) # {}

\* C24 as stated: "n" gives (n, n), "a-b" gives (a, b), every other string
\* (and a missing one) gives (default_page, default_page).
C24_ParsePageBounds ==
    parser.pc = "returned" =>
        LET s == parser.page_range
            d == <<parser.default_page, parser.default_page>>
        IN  IF s = NoneRange THEN parser.bounds = d
            ELSE IF IsNumber(s) THEN parser.bounds = <<IntOf(s), IntOf(s)>>
            ELSE IF IsRange(s) THEN IsRangeOf(s, parser.bounds)
            ELSE parser.bounds = d

\* C24, amended: the same for the string with the white space around it
\* removed and with white space allowed on both sides of the dash.
C24_ParsePageBoundsStripped ==
    parser.pc = "returned" =>
        LET s == IF parser.page_range = NoneRange THEN <<>>
                 ELSE Strip(parser.page_range)
            d == <<parser.default_page, parser.default_page>>
        IN  IF IsNumber(s) THEN parser.bounds = <<IntOf(s), IntOf(s)>>
            ELSE IF IsSpacedRange(s) THEN IsSpacedRangeOf(s, parser.bounds)
            ELSE parser.bounds = d

\* '3 - 4' has been parsed into (3, 4).
C24_Witness ==
    /\ parser.pc = "returned"
    /\ parser.page_range = <<"3", " ", "-", " ", "4">>
    /\ parser.bounds = <<3, 4>>

\* The notifications of a run that goes through every stage, in order.
StageOrder ==
    <<"extracting", "alert_extraction", "chunking", "embedding", "indexing",
      "completed">>

IsPrefix(s, t) == Len(s) <= Len(t) /\ SubSeq(t, 1, Len(s)) = s

\* C25: with a publisher configured, the notifications emitted for the run
\* are, in order, a prefix of started(extracting), alert_extraction,
\* chunking, embedding, indexing, completed, optionally followed by exactly
\* one failed; completed and failed are never both emitted, nothing is
\* emitted after either of them, and a run that has raised after its doc_id
\* was established has emitted failed.
C25_NotificationsInStageOrder ==
    run.event_publisher =>
        LET ev == run.events
            n == Len(ev)
        IN  /\ \/ IsPrefix(ev, StageOrder)
               \/ /\ n >= 1
                  /\ ev[n] = "failed"
                  /\ IsPrefix(SubSeq(ev, 1, n - 1), StageOrder)
            /\ ~(\E i, j \in 1..n : ev[i] = "completed" /\ ev[j] = "failed")
            /\ \A i \in 1..n : ev[i] \in {"completed", "failed"} => i = n
            /\ (run.pc = "raised" /\ run.doc_id # "None") => (n >= 1 /\ ev[n] = "failed")

\* A run that failed in the embedding stage has emitted the four stage
\* notifications up to embedding and then failed.
C25_Witness ==
    /\ run.event_publisher
    /\ run.pc = "raised"
    /\ run.events = <<"extracting", "alert_extraction", "chunking", "embedding", "failed">>

(***************************************************************************)
(* EmbedRunSpec: embed_batch as _run_pipeline calls it (function_app.py,   *)
(* lines 228-231), with the handler of _run_pipeline (lines 254-263) that  *)
(* an exception of the call reaches.                                       *)
(***************************************************************************)

\* The run at the call of embed_batch: the four notifications up to
\* embedding were sent when a publisher exists, no alerts were found, and
\* the Document record is in the index with status `extracting` unless
\* index_document had failed.  The run record counts at most MaxChunks
\* chunks.
AtEmbedding(publisher, indexed, n) ==
    [InitRun EXCEPT
        !.pc = "embed_batch",
        !.doc_id = "d1",
        !.event_publisher = publisher,
        !.chunks = 1..(IF n < MaxChunks THEN n ELSE MaxChunks),
        !.worker = "finished",
        !.docs_status = IF indexed THEN "extracting" ELSE "absent",
        !.status_log = IF indexed THEN <<"extracting">> ELSE <<>>,
        !.failed_writes = IF indexed THEN {} ELSE {"document"},
        !.events = IF publisher
                   THEN <<"extracting", "alert_extraction", "chunking", "embedding">>
                   ELSE <<>>,
        !.delivered = IF publisher THEN 4 ELSE 0]

EmbedRunInit ==
    /\ shadow = InitRun
    /\ linker = NotCalled
    /\ parser = NotCalled
    /\ chunker = NotCalled
    /\ handler = NotCalled
    /\ extractor = NotCalled
    /\ \E n \in 0..MaxTexts : \E longAt \in {0, 1, n} :
       \E publisher, indexed \in BOOLEAN :
          /\ run = AtEmbedding(publisher, indexed, n)
          /\ embedder = [pc |-> "chunk_texts", chunks |-> ChunksIn(n, longAt),
                         texts |-> <<>>, i |-> 0, all_embeddings |-> <<>>,
                         embeddings |-> <<>>, attempt |-> 1]

\* Line 229: the exception that embed_batch lets out goes to the handler of
\* _run_pipeline.
DoEmbedBatchRaises ==
    /\ embedder.pc = "raised"
    /\ run.pc = "embed_batch"
    /\ run' = EmbedBatch(run, FALSE)
    /\ UNCHANGED <<shadow, components>>

\* Lines 229-236: embed_batch has returned and the vectors are attached.
DoEmbedBatchReturns ==
    /\ embedder.pc = "indexing"
    /\ run.pc = "embed_batch"
    /\ run' = EmbedBatch(run, TRUE)
    /\ UNCHANGED <<shadow, components>>

EmbedRunNext ==
    \/ EmbedNext
    \/ DoEmbedBatchRaises
    \/ DoEmbedBatchReturns
    \/ (run.pc = "except" /\ DoExceptHandler)
    \/ (run.pc = "publish_failed" /\ DoPublish)

EmbedRunSpec == EmbedRunInit /\ [][EmbedRunNext]_vars

\* Whenever embed_batch has returned, after however many failed attempts,
\* the list holds exactly one vector per input text, in input order, and
\* at most 3 attempts were made.
EmbedRetryLeavesNoResidue ==
    /\ embedder.attempt <= 3
    /\ embedder.pc \in {"zip", "indexing"} =>
          /\ Len(embedder.embeddings) = Len(embedder.texts)
          /\ \A j \in 1..Len(embedder.texts) :
                embedder.embeddings[j] = <<Truncate(embedder.texts[j])>>

\* C26: a call of embed_batch that succeeds after failed attempts returns
\* exactly one vector per input text in input order, with nothing left
\* over from the failed attempts and at most 3 attempts made; and when all
\* attempts fail, the call raises and the run ends with the status `failed`
\* persisted.
C26_EmbedRetryIdempotentOrRunFailed ==
    /\ EmbedRetryLeavesNoResidue
    /\ (embedder.pc = "raised" /\ run.pc = "raised") => run.docs_status = "failed"

\* A completed notification has been handed to the publisher's client.
CompletedEmitted == \E i \in 1..Len(run.events) : run.events[i] = "completed"

\* C27: whenever a completed notification has been emitted for the doc_id,
\* or _run_pipeline has returned normally, the processing_status persisted
\* in the index is `completed`; and once `completed` or `failed` has been
\* persisted, the run writes no further status.
C27_CompletedOnlyWhenPersisted ==
    /\ []((CompletedEmitted \/ run.pc = "done") => run.docs_status = "completed")
    /\ [][run.docs_status \in {"completed", "failed"} =>
              /\ run'.docs_status = run.docs_status
              /\ run'.status_log = run.status_log
              /\ run'.failed_writes = run.failed_writes]_vars

(***************************************************************************)
(* RequestSpec: process_ewa_blob on a request whose body is an array of    *)
(* events (function_app.py, lines 73-110).  The handler record holds the   *)
(* array, and runs lists the blob URLs _run_pipeline was called with; the  *)
(* call itself returns or raises.                                          *)
(***************************************************************************)

\* Bound: the number of events in the array of a request.
MaxRequestEvents == 3

\* The blob URLs of the events of a request: two PDFs, a text file and a
\* URL with too few segments.
RequestUrls ==
    { [host |-> ".blob.core.windows.net", path |-> p] :
        p \in { <<"c", "c", "f.pdf">>, <<"c", "c", "F.PDF">>,
                <<"c", "c", "f.txt">>, <<"c">> } }

RequestEvents ==
    { [eventType |-> "Microsoft.EventGrid.SubscriptionValidationEvent", url |-> NoUrl],
      [eventType |-> "Other", url |-> NoUrl] }
    \cup { [eventType |-> "Microsoft.Storage.BlobCreated", url |-> u] : u \in RequestUrls }

\* Line 74: events = body if isinstance(body, list) else [body]
RequestReceived(events) ==
    [pc |-> "loop", n |-> Len(events), k |-> 0, event |-> NoEvent,
     response |-> "none", events |-> events, runs |-> <<>>]

\* Lines 105-106: _run_pipeline(customer_id, file_name, blob_url) and, when
\* it returns, return "OK"; an exception of the call leaves the handler.
CallPipeline(h, returns) ==
    [h EXCEPT !.runs = Append(h.runs, h.event.url),
              !.pc = IF returns THEN "returned" ELSE "raised",
              !.response = IF returns THEN "200 OK" ELSE "none"]

RequestInit ==
    /\ run = NotStarted
    /\ shadow = InitRun
    /\ linker = NotCalled
    /\ parser = NotCalled
    /\ embedder = NotCalled
    /\ chunker = NotCalled
    /\ extractor = NotCalled
    /\ \E events \in SeqsUpTo(RequestEvents, MaxRequestEvents) :
          handler = RequestReceived(events)

RequestFrame == UNCHANGED <<run, shadow, embedder, chunker, extractor, linker, parser>>

\* Line 76: for event in events
DoHandleNextEvent ==
    /\ handler.pc = "loop"
    /\ handler.k < handler.n
    /\ handler' = HandleEvent(handler, handler.events[handler.k + 1])
    /\ RequestFrame

DoCallPipeline ==
    /\ handler.pc = "run_pipeline"
    /\ \E returns \in BOOLEAN : handler' = CallPipeline(handler, returns)
    /\ RequestFrame

RequestNext ==
    \/ DoHandleNextEvent
    \/ DoReturnOk
    \/ DoCallPipeline

RequestSpec == RequestInit /\ [][RequestNext]_vars

\* The event is a BlobCreated event for a PDF blob.
IsPdfBlobEvent(ev) ==
    /\ ev.eventType = "Microsoft.Storage.BlobCreated"
    /\ ev.url.path[Len(ev.url.path)] \in {"f.pdf", "F.PDF"}

\* The URLs of the PDF blobs of the request, in the order of the array.
PdfBlobUrls ==
    LET pdfs == SelectSeq(handler.events, IsPdfBlobEvent)
    IN  [i \in 1..Len(pdfs) |-> pdfs[i].url]

\* C28: when process_ewa_blob has answered a request, the pipeline has been
\* run once for each PDF blob of a BlobCreated event in the array, whatever
\* events precede it in the array.
C28_EveryBlobCreatedEventHandled ==
    handler.pc = "returned" => handler.runs = PdfBlobUrls

(***************************************************************************)
(* SplitSpec: chunk_document on texts whose lines include one that begins  *)
(* with '#' and is not a header (no white space after the hash).           *)
(***************************************************************************)

\* The lines of the texts of SplitSpec: '#b', a short paragraph, a blank
\* line, a paragraph longer than ChunkSize, and a header.
SplitLines ==
    { <<"#", "b">>, <<"b", "b">>, <<>>,
      <<"a", "a", "a", "a", "a", "a", "a">>, <<"#", " ", "a">> }

SplitInit ==
    /\ run = InitRun
    /\ shadow = InitRun
    /\ linker = NotCalled
    /\ parser = NotCalled
    /\ embedder = NotCalled
    /\ handler = NotCalled
    /\ extractor = NotCalled
    /\ \E lines \in SeqsUpTo(SplitLines, MaxLines) : chunker = Called(Join(lines, <<"\n">>))

SplitSpec == SplitInit /\ [][ChunkNext]_vars

\* The paragraphs of a text: its blocks between blank lines, each without
\* the white space around it, blocks of white space left out.
ParagraphsOf(text) ==
    LET blocks == Split(text, <<"\n", "\n">>)
        stripped == [k \in 1..Len(blocks) |-> Strip(blocks[k])]
        NonBlank(b) == b # <<>>
    IN  SelectSeq(stripped, NonBlank)

\* The header line of a section's chunk: the first line of the content of a
\* section that has a header, nothing for the text before the first header.
HeaderLineOf(chunk) ==
    IF chunk.header_level # NoLevel THEN Split(chunk.content_md, <<"\n">>)[1] ELSE <<>>

\* The paragraphs of the sub-chunks, in sub-ordinal order, the header line
\* at the start of each left out.
RECURSIVE ParagraphsOfAll(_, _)
ParagraphsOfAll(emitted, header) ==
    IF emitted = <<>> THEN <<>>
    ELSE ParagraphsOf(SubSeq(Head(emitted).content_md, Len(header) + 1,
                             Len(Head(emitted).content_md)))
            \o ParagraphsOfAll(Tail(emitted), header)

\* C29: for every section that is split, the paragraphs of the section
\* body are the paragraphs of its sub-chunks read in sub-ordinal order, each
\* whole and once, and every sub-chunk starts with the section's header
\* line, which is the only text repeated.  Paragraphs are compared without
\* the white space around them.
C29_SplitKeepsParagraphsOnce ==
    \A k \in 1..Len(chunker.produced) :
        LET p == chunker.produced[k]
            header == HeaderLineOf(p.chunk)
            body == SubSeq(p.chunk.content_md, Len(header) + 1, Len(p.chunk.content_md))
        IN  WasSplit(p) =>
                /\ \A n \in 1..Len(p.emitted) : StartsWith(p.emitted[n].content_md, header)
                /\ ParagraphsOfAll(p.emitted, header) = ParagraphsOf(body)

(***************************************************************************)
(* Page order of what chunk_document and extract_alerts return.  The       *)
(* chunker is called with a page map, a list of (char_start, char_end,     *)
(* page_num), or with none; extract_alerts parses the page_range string of *)
(* the answer with default_page = 1.                                       *)
(***************************************************************************)
MaxPageLines == 3
MaxPageMapLen == 2

\* The lines of the texts: a header and a line of text.
PageLines == { <<"#", " ", "a">>, <<"b", "b">> }

\* The entries of the page maps: the pages need neither follow each other
\* nor cover the text.
PageMapEntries ==
    { [char_start |-> r[1], char_end |-> r[2], page_num |-> n] :
          r \in { <<0, 3>>, <<4, 20>>, <<0, 20>> }, n \in 1..3 }

PageMaps == SeqsUpTo(PageMapEntries, MaxPageMapLen)

\* Lines 26-33: chunk_document(markdown, ..., page_map=page_map).
CalledWithPageMap(markdown, page_map) ==
    [pc |-> "split_by_headers", markdown |-> markdown, sections |-> <<>>, i |-> 0,
     chunks |-> <<>>, produced |-> <<>>, page_map |-> page_map]

PagesInit ==
    /\ run = InitRun
    /\ shadow = InitRun
    /\ embedder = NotCalled
    /\ handler = NotCalled
    /\ extractor = NotCalled
    /\ linker = NotCalled
    /\ \/ /\ parser = NotCalled
          /\ \E lines \in SeqsUpTo(PageLines, MaxPageLines) : \E page_map \in PageMaps :
                chunker = CalledWithPageMap(Join(lines, <<"\n">>), page_map)
       \/ /\ chunker = NotCalled
          /\ \E page_range \in PageRanges : parser = ParseCalled(page_range, 1)

\* Lines 53-91 with the page map of the call.
DoChunkSectionWithPageMap ==
    /\ chunker.pc = "loop"
    /\ chunker.i < Len(chunker.sections)
    /\ chunker' = ChunkSection(chunker, chunker.page_map, ChunkSize)
    /\ UNCHANGED <<run, shadow, embedder, handler, extractor, linker, parser>>

PagesNext ==
    \/ DoSplitSections
    \/ DoChunkSectionWithPageMap
    \/ DoReturnChunks
    \/ DoParsePageBounds
    \/ DoBuildAlert

PagesSpec == PagesInit /\ [][PagesNext]_vars

\* Every chunk of the call has page_start <= page_end.
ChunkPagesOrdered ==
    chunker.pc # "not_called"
        => \A k \in 1..Len(chunker.chunks) :
              chunker.chunks[k].page_start <= chunker.chunks[k].page_end

\* A chunk whose section starts on a later page than it ends on.
ChunkPagesRaised ==
    /\ chunker.pc = "returned"
    /\ \E k \in 1..Len(chunker.chunks) :
          /\ chunker.chunks[k].page_start = 3
          /\ chunker.chunks[k].page_end = 3
          /\ chunker.page_map = << [char_start |-> 0, char_end |-> 3, page_num |-> 3],
                                   [char_start |-> 4, char_end |-> 20, page_num |-> 1] >>

\* C30: every chunk returned by chunk_document and every alert returned by
\* extract_alerts has page_start <= page_end, for every page map (or none)
\* and every page_range string of the answer.
C30_PageStartNotAfterPageEnd ==
    /\ ChunkPagesOrdered
    /\ parser.pc = "alert_built" => parser.alert.page_start <= parser.alert.page_end

====
